---- MODULE Spec2Model ----
(***************************************************************************)
(* deeptrender: venue attribution, cross-source record linkage and keyword *)
(* curation.  Strings are TLA+ strings handled character by character      *)
(* (Len, SubSeq and \o), so that normalisation, lower-casing and pattern   *)
(* matching are computed the way the Python and SQL code compute them.     *)
(***************************************************************************)
EXTENDS Integers, Sequences, FiniteSets, TLC

VARIABLES
    raw_papers,      \* table raw_papers: sequence of rows, raw_id = index
    papers,          \* table papers: sequence of rows, paper_id = index
    paper_sources,   \* table paper_sources: sequence of rows, id = index
    venues,          \* table venues: sequence of rows, venue_id = index
    venue_cache,     \* StructuringAgent._venue_cache: function name -> venue_id
    last_stats,      \* summary returned by the last process_batch
    cands,           \* candidate (term, score) list yielded by the extractor
    paper,           \* the canonical paper being curated
    out,             \* the last filter call: entry point, flags and returned list
    runs,            \* lists returned by AnalysisAgent.process_paper, in call order
    paper_keywords,  \* table paper_keywords: sequence of rows
    next_kw_id,      \* AUTOINCREMENT counter of paper_keywords.id
    rows_after,      \* (paper, keyword, method, score) rows after each curation run
    rec,             \* raw record handed to the venue resolvers
    detected,        \* result of StructuringAgent._detect_venue
    reprocessed,     \* what the last reprocess_arxiv_papers run chose, record by record
    clock,           \* datetime.now(), as a tick of the ingestion calendar
    arxiv_timeseries,\* table analysis_arxiv_timeseries: set of rows
    analysis_meta,   \* table analysis_meta: set of (key, value) rows
    arxiv_emerging,  \* table analysis_arxiv_emerging: set of rows
    trend_result     \* what the last ArxivAnalysisAgent call returned

vars == << raw_papers, papers, paper_sources, venues, venue_cache, last_stats,
           cands, paper, out, runs, paper_keywords, next_kw_id, rows_after,
           rec, detected, reprocessed,
           clock, arxiv_timeseries, analysis_meta, arxiv_emerging, trend_result >>

linkVars == << raw_papers, papers, paper_sources, venues, venue_cache, last_stats >>
curateVars == << cands, paper, out, runs, paper_keywords, next_kw_id, rows_after >>
venueVars == << rec, detected, reprocessed >>
trendVars == << clock, arxiv_timeseries, analysis_meta, arxiv_emerging, trend_result >>

Null == "<none>"
\* The value of a result variable before the operation has run.
NotCalled == [called |-> FALSE]

(***************************************************************************)
(* Character-level string primitives                                       *)
(***************************************************************************)
Ch(s, i) == SubSeq(s, i, i)

UpperAscii == "ABCDEFGHIJKLMNOPQRSTUVWXYZ"
LowerAscii == "abcdefghijklmnopqrstuvwxyz"
\* Non-ASCII letters with a lower-case form (a sample of the Unicode table).
UpperOther == "ÉÜΔ"
LowerOther == "éüδ"
Digits == "0123456789"

IndexIn(c, s) == IF \E i \in 1..Len(s) : Ch(s, i) = c
                 THEN CHOOSE i \in 1..Len(s) : Ch(s, i) = c
                 ELSE 0
CharsOf(s) == { Ch(s, i) : i \in 1..Len(s) }

DigitSet == CharsOf(Digits)
AlphaSet == CharsOf(UpperAscii) \cup CharsOf(LowerAscii)
                \cup CharsOf(UpperOther) \cup CharsOf(LowerOther)
\* upper-case character |-> its lower-case form
AsciiLowerOf == [c \in CharsOf(UpperAscii) |-> Ch(LowerAscii, IndexIn(c, UpperAscii))]
OtherLowerOf == [c \in CharsOf(UpperOther) |-> Ch(LowerOther, IndexIn(c, UpperOther))]

IsDigit(c) == c \in DigitSet
IsSpace(c) == c \in {" ", "\t", "\n"}
IsAlpha(c) == c \in AlphaSet
\* \w of Python's re on str: letters, digits and underscore.
IsWordCh(c) == IsAlpha(c) \/ IsDigit(c) \/ c = "_"

MapStr(F(_), s) ==
    LET f[i \in 0..Len(s)] == IF i = 0 THEN "" ELSE f[i-1] \o F(Ch(s, i))
    IN  f[Len(s)]

\* Python str.lower() on one character: full Unicode lower-casing.
PyLowerCh(c) ==
    IF c \in DOMAIN AsciiLowerOf THEN AsciiLowerOf[c]
    ELSE IF c \in DOMAIN OtherLowerOf THEN OtherLowerOf[c]
    ELSE c
PyLower(s) == MapStr(PyLowerCh, s)

\* SQLite's built-in LOWER(): "works for ASCII characters only" in the
\* default build (no ICU extension), which is what Python's sqlite3 links.
SqliteLowerCh(c) == IF c \in DOMAIN AsciiLowerOf THEN AsciiLowerOf[c] ELSE c
SqliteLower(s) == MapStr(SqliteLowerCh, s)

\* str.strip(): drop leading and trailing whitespace.
RECURSIVE LStrip(_)
LStrip(s) == IF Len(s) > 0 /\ IsSpace(Ch(s, 1)) THEN LStrip(SubSeq(s, 2, Len(s))) ELSE s
RECURSIVE RStrip(_)
RStrip(s) == IF Len(s) > 0 /\ IsSpace(Ch(s, Len(s))) THEN RStrip(SubSeq(s, 1, Len(s) - 1)) ELSE s
Strip(s) == LStrip(RStrip(s))

\* " ".join(s.split()), equally re.sub(r'\s+', ' ', s).strip(): whitespace
\* runs become one space, none at either end.
CollapseWs(s) ==
    LET f[i \in 0..Len(s)] ==
            IF i = 0 THEN ""
            ELSE LET c == Ch(s, i)
                     prev == f[i-1]
                 IN  IF IsSpace(c) THEN prev
                     ELSE IF i > 1 /\ IsSpace(Ch(s, i-1)) /\ prev # ""
                          THEN prev \o " " \o c
                          ELSE prev \o c
    IN  f[Len(s)]

\* len(s.split())
WordCount(s) ==
    Cardinality({ i \in 1..Len(s) : /\ ~IsSpace(Ch(s, i))
                                    /\ (i = 1 \/ IsSpace(Ch(s, i-1))) })

\* True iff needle occurs in s (Python's `needle in s`).
Contains(s, needle) ==
    \E i \in 1..(Len(s) - Len(needle) + 1) : SubSeq(s, i, i + Len(needle) - 1) = needle

\* s.rstrip(chars) / s.lstrip(chars) for a set of characters.
RECURSIVE RStripChars(_, _)
RStripChars(s, cs) ==
    IF Len(s) > 0 /\ Ch(s, Len(s)) \in cs THEN RStripChars(SubSeq(s, 1, Len(s) - 1), cs) ELSE s
RECURSIVE LStripChars(_, _)
LStripChars(s, cs) ==
    IF Len(s) > 0 /\ Ch(s, 1) \in cs THEN LStripChars(SubSeq(s, 2, Len(s)), cs) ELSE s

(***************************************************************************)
(* KeywordFilter (src/src/extractor/keyword_filter.py)                     *)
(***************************************************************************)
BANNED_WORDS ==
    { "method", "methods", "approach", "approaches", "technique", "techniques", "result",
      "results", "performance", "paper", "papers", "study", "studies", "novel", "new",
      "proposed", "propose", "present", "presents", "introduction", "conclusion",
      "abstract", "work", "works", "research", "analysis", "experiment", "experiments",
      "evaluation", "evaluations", "model", "models", "network", "networks", "system",
      "systems", "algorithm", "algorithms", "framework", "frameworks", "data", "dataset",
      "datasets", "benchmark", "benchmarks", "training", "testing", "learning", "task",
      "tasks", "based", "using", "via", "improved", "better", "best", "efficient",
      "effective", "simple", "complex", "large", "small", "high", "low", "state", "art",
      "end", "end to end", "show", "shows", "demonstrate", "demonstrates", "achieve",
      "achieves", "outperform", "outperforms", "improve", "improves" }

ENGLISH_STOPWORDS ==
    { "a", "an", "the", "and", "or", "but", "if", "then", "else", "when", "at", "by", "for",
      "with", "about", "against", "between", "into", "through", "during", "before", "after",
      "above", "below", "to", "from", "up", "down", "in", "out", "on", "off", "over",
      "under", "again", "further", "once", "here", "there", "all", "each", "few", "more",
      "most", "other", "some", "such", "no", "nor", "not", "only", "own", "same", "so",
      "than", "too", "very", "can", "will", "just", "should", "now", "also", "however",
      "thus", "therefore", "hence", "although", "whereas", "while", "since", "because",
      "as", "is", "are", "was", "were", "be", "been", "being", "have", "has", "had",
      "having", "do", "does", "did", "doing", "would", "could", "might", "may", "must",
      "shall", "i", "you", "he", "she", "it", "we", "they", "what", "which", "who", "whom",
      "this", "that", "these", "those", "am" }

DOMAIN_NOISE_WORDS ==
    { "experiments", "experimental", "ablation", "ablations", "comparison", "comparisons",
      "baseline", "baselines", "dataset", "datasets", "benchmark", "benchmarks", "samples",
      "sample", "examples", "example", "accuracy", "loss", "metrics", "metric", "score",
      "scores", "table", "figure", "figures", "tables", "problem", "problems", "solution",
      "solutions", "challenge", "challenges", "issue", "issues", "application",
      "applications" }

SYNONYM_MAPPING ==
    ("llm" :> "large language model")
    @@ ("llms" :> "large language model")
    @@ ("large language models" :> "large language model")
    @@ ("diffusion models" :> "diffusion model")
    @@ ("diffusion based" :> "diffusion model")
    @@ ("transformers" :> "transformer")
    @@ ("vision transformer" :> "vision transformer")
    @@ ("vision transformers" :> "vision transformer")
    @@ ("vit" :> "vision transformer")
    @@ ("vits" :> "vision transformer")
    @@ ("gans" :> "generative adversarial network")
    @@ ("gan" :> "generative adversarial network")
    @@ ("generative adversarial networks" :> "generative adversarial network")
    @@ ("cnn" :> "convolutional neural network")
    @@ ("cnns" :> "convolutional neural network")
    @@ ("convolutional neural networks" :> "convolutional neural network")
    @@ ("rnn" :> "recurrent neural network")
    @@ ("rnns" :> "recurrent neural network")
    @@ ("recurrent neural networks" :> "recurrent neural network")
    @@ ("lstm" :> "long short term memory")
    @@ ("lstms" :> "long short term memory")
    @@ ("rl" :> "reinforcement learning")
    @@ ("drl" :> "deep reinforcement learning")
    @@ ("self supervised" :> "self supervised learning")
    @@ ("self supervision" :> "self supervised learning")
    @@ ("contrastive" :> "contrastive learning")
    @@ ("nlp" :> "natural language processing")
    @@ ("cv" :> "computer vision")
    @@ ("ml" :> "machine learning")
    @@ ("dl" :> "deep learning")
    @@ ("ai" :> "artificial intelligence")

min_length == 3
max_length == 60
\* fuzzy_threshold = 0.85, kept as a fraction so the comparison is exact
ThresholdNum == 85
ThresholdDen == 100

\* KeywordFilter.normalize: the normalized keyword, or Null for None.
Normalize(keyword) ==
    IF keyword = "" THEN Null
    ELSE LET k1 == Strip(PyLower(keyword))
             Unify(c) == IF c \in {"-", "_", "/"} THEN " " ELSE c
             k2 == MapStr(Unify, k1)
             k3 == RStripChars(k2, {",", ";", ":", ".", "!", "?", "'", "\"", ")", "]"})
             k4 == LStripChars(k3, {"(", "[", "'", "\""})
             k5 == CollapseWs(k4)
         IN  IF k5 = "" THEN Null ELSE k5

is_banned(keyword) == keyword \in BANNED_WORDS

is_stopword(keyword) ==
    \/ keyword \in ENGLISH_STOPWORDS
    \/ (WordCount(keyword) = 1 /\ keyword \in ENGLISH_STOPWORDS)

is_domain_noise(keyword) == keyword \in DOMAIN_NOISE_WORDS

is_noise_pattern(keyword) ==
    LET n == Len(keyword)
        digits == Cardinality({ i \in 1..n : IsDigit(Ch(keyword, i)) })
    IN  \/ n < min_length \/ n > max_length
        \/ (n > 0 /\ \A i \in 1..n :
                 LET c == Ch(keyword, i) IN IsDigit(c) \/ IsSpace(c) \/ c \in {".", ",", "-"})
        \/ 2 * digits > n
        \/ \E u \in {"http", "www", ".com", ".org", "@"} : Contains(keyword, u)
        \/ (WordCount(keyword) = 1 /\ n < 3)

should_filter(keyword) ==
    \/ is_banned(keyword) \/ is_stopword(keyword)
    \/ is_domain_noise(keyword) \/ is_noise_pattern(keyword)

apply_synonym(keyword) ==
    IF keyword \in DOMAIN SYNONYM_MAPPING THEN SYNONYM_MAPPING[keyword] ELSE keyword

\* Position of kw in a list of <<kw, score>> pairs, 0 when absent.
PosOf(kw, pairs) ==
    IF \E i \in 1..Len(pairs) : pairs[i][1] = kw
    THEN CHOOSE i \in 1..Len(pairs) : pairs[i][1] = kw
    ELSE 0

\* A dict that keeps the score seen last for a keyword, not the highest.
deduplicate_exact_last(keywords) ==
    LET seen[i \in 0..Len(keywords)] ==
            IF i = 0 THEN << >>
            ELSE LET kw == keywords[i][1]
                     prev == seen[i-1]
                     p == PosOf(kw, prev)
                 IN  IF p = 0 THEN Append(prev, keywords[i])
                     ELSE [prev EXCEPT ![p] = keywords[i]]
    IN  seen[Len(keywords)]

\* deduplicate_exact: a dict keyed by keyword, so the result is in order of
\* first occurrence, each keyword with the highest score seen for it.
deduplicate_exact(keywords) ==
    LET seen[i \in 0..Len(keywords)] ==
            IF i = 0 THEN << >>
            ELSE LET kw == keywords[i][1]
                     score == keywords[i][2]
                     prev == seen[i-1]
                     p == PosOf(kw, prev)
                 IN  IF p = 0 THEN Append(prev, <<kw, score>>)
                     ELSE IF score > prev[p][2]
                          THEN [prev EXCEPT ![p] = <<kw, score>>]
                          ELSE prev
    IN  seen[Len(keywords)]

\* difflib.SequenceMatcher: length of the common run starting at a[i], b[j].
RECURSIVE Ext(_, _, _, _, _, _)
Ext(a, i, ahi, b, j, bhi) ==
    IF i <= ahi /\ j <= bhi /\ Ch(a, i) = Ch(b, j)
    THEN 1 + Ext(a, i + 1, ahi, b, j + 1, bhi)
    ELSE 0

\* Total size of get_matching_blocks() on a[alo..ahi], b[blo..bhi]: the
\* longest common block (earliest in a, then earliest in b), then the same
\* to its left and to its right.
RECURSIVE Matches(_, _, _, _, _, _)
Matches(a, alo, ahi, b, blo, bhi) ==
    LET starts == { p \in (alo..ahi) \X (blo..bhi) : Ch(a, p[1]) = Ch(b, p[2]) }
    IN  IF starts = {} THEN 0
        ELSE LET len == [p \in starts |-> Ext(a, p[1], ahi, b, p[2], bhi)]
                 k == CHOOSE n \in { len[p] : p \in starts } :
                          \A q \in starts : len[q] <= n
                 best == { p \in starts : len[p] = k }
                 i == CHOOSE x \in { p[1] : p \in best } : \A p \in best : x <= p[1]
                 j == CHOOSE y \in { p[2] : p \in { q \in best : q[1] = i } } :
                          \A p \in { q \in best : q[1] = i } : y <= p[2]
             IN  k + Matches(a, alo, i - 1, b, blo, j - 1)
                   + Matches(a, i + k, ahi, b, j + k, bhi)

\* similarity(a, b) >= threshold, i.e. 2.0 * M / T >= num / den
SimilarAtLeast(a, b, num, den) ==
    LET T == Len(a) + Len(b)
    IN  IF T = 0 THEN den >= num
        ELSE 2 * Matches(a, 1, Len(a), b, 1, Len(b)) * den >= num * T

\* A sort that leaves the list in its input order.
SortedNotAtAll(keywords) == keywords

\* sorted(keywords, key=score, reverse=True): stable, descending by score.
SortedByScoreDesc(keywords) ==
    LET ins[i \in 0..Len(keywords)] ==
            IF i = 0 THEN << >>
            ELSE LET x == keywords[i]
                     prev == ins[i-1]
                     n == Cardinality({ q \in 1..Len(prev) : prev[q][2] >= x[2] })
                 IN  SubSeq(prev, 1, n) \o << x >> \o SubSeq(prev, n + 1, Len(prev))
    IN  ins[Len(keywords)]

\* The test of the inner loop of deduplicate_fuzzy for one accepted keyword.
IsSimilarTo(kw, existing_kw, num, den) ==
    \/ SimilarAtLeast(kw, existing_kw, num, den)
    \/ RStripChars(kw, {"s"}) = existing_kw
    \/ RStripChars(existing_kw, {"s"}) = kw

\* Fuzzy dedup that visits the keywords in ascending score order, keeping
\* the lower-scoring member of each group of similar terms.
deduplicate_fuzzy_ascending(keywords, num, den) ==
    LET desc == SortedByScoreDesc(keywords)
        sorted_kws == [i \in 1..Len(desc) |-> desc[Len(desc) + 1 - i]]
        result[i \in 0..Len(sorted_kws)] ==
            IF i = 0 THEN << >>
            ELSE LET kw == sorted_kws[i][1]
                     prev == result[i-1]
                 IN  IF \E e \in 1..Len(prev) : IsSimilarTo(kw, prev[e][1], num, den)
                     THEN prev
                     ELSE Append(prev, sorted_kws[i])
    IN  result[Len(sorted_kws)]

deduplicate_fuzzy(keywords, num, den) ==
    LET sorted_kws == SortedByScoreDesc(keywords)
        result[i \in 0..Len(sorted_kws)] ==
            IF i = 0 THEN << >>
            ELSE LET kw == sorted_kws[i][1]
                     prev == result[i-1]
                 IN  IF \E e \in 1..Len(prev) : IsSimilarTo(kw, prev[e][1], num, den)
                     THEN prev
                     ELSE Append(prev, sorted_kws[i])
    IN  result[Len(sorted_kws)]

\* Stages 1-3 of KeywordFilter.process for one candidate: the canonical
\* term, or Null when the candidate is dropped.
Canonical(kw) ==
    LET normalized == Normalize(kw)
    IN  IF normalized = Null THEN Null
        ELSE IF should_filter(normalized) THEN Null
        ELSE apply_synonym(normalized)

\* KeywordFilter.process(keywords, fuzzy_dedup, fuzzy_threshold = 0.85)
process(keywords, fuzzy_dedup) ==
    LET staged[i \in 0..Len(keywords)] ==
            IF i = 0 THEN << >>
            ELSE LET canonical == Canonical(keywords[i][1])
                     prev == staged[i-1]
                 IN  IF canonical = Null THEN prev
                     ELSE Append(prev, <<canonical, keywords[i][2]>>)
        exact == deduplicate_exact(staged[Len(keywords)])
    IN  IF fuzzy_dedup THEN deduplicate_fuzzy(exact, ThresholdNum, ThresholdDen)
        ELSE exact

\* filter_keywords(keywords, fuzzy_dedup): the module-level helper
filter_keywords(keywords, fuzzy_dedup) == process(keywords, fuzzy_dedup)

(***************************************************************************)
(* Inputs of the keyword curator                                           *)
(***************************************************************************)
MaxCand == 2          \* longest freely chosen candidate list (filter calls)
MaxCurateCand == 1    \* longest freely chosen candidate list (curation runs)
FillLen == 11         \* length of the long candidate list
MaxRuns == 2          \* curation runs per paper

TermPool == { "Transformers", "transformer", "graph-net", "Graph nets.", "the" }
ScorePool == { 10, 20 }
Candidates == TermPool \X ScorePool

\* All candidate lists of length at most n.
ListsUpTo(n) == UNION { [1..k -> Candidates] : k \in 0..n }

\* A long list of pairwise dissimilar three-letter terms: the i-th term
\* spells i in base 5 over the letters below.
FillLetters == "qxzvk"
FillerTerm(i) == Ch(FillLetters, ((i \div 25) % 5) + 1)
                 \o Ch(FillLetters, ((i \div 5) % 5) + 1)
                 \o Ch(FillLetters, (i % 5) + 1)
Filler == [i \in 1..FillLen |-> <<FillerTerm(i), 10 * (1 + (i % 2))>>]

FilterInputs == ListsUpTo(MaxCand) \cup { s \o Filler : s \in ListsUpTo(1) }
CurateInputs == ListsUpTo(MaxCurateCand) \cup { s \o Filler : s \in ListsUpTo(1) }

Methods == { "yake", "keybert" }
\* top_n: 15 is process_paper's default, 10 is what AnalysisAgent.run passes
TopNs == { 10, 15 }
KeepCount == 10
MinTextLen == 10

CuratedPapers ==
    { [paper_id |-> 1, canonical_title |-> "Graph nets", abstract |-> "for text"],
      [paper_id |-> 2, canonical_title |-> "RL", abstract |-> ""] }

(***************************************************************************)
(* AnalysisAgent and AnalysisRepository                                    *)
(***************************************************************************)
\* Paper.text_for_extraction
text_for_extraction(p) == p.canonical_title \o ". " \o p.abstract

Prefix(s, n) == SubSeq(s, 1, IF n < Len(s) THEN n ELSE Len(s))

\* process_paper without the final cut to the kept count.
process_paper_uncut(p, method, top_n, extracted) ==
    IF Len(text_for_extraction(p)) < MinTextLen THEN << >>
    ELSE LET filtered == process(Prefix(extracted, top_n), TRUE)
         IN  [i \in 1..Len(filtered) |->
                 [paper_id |-> p.paper_id, keyword |-> filtered[i][1],
                  method |-> method, score |-> filtered[i][2]]]

\* AnalysisAgent.process_paper; `extracted` is what the extractor returns
\* for the paper's text.
process_paper(p, method, top_n, extracted) ==
    IF Len(text_for_extraction(p)) < MinTextLen THEN << >>
    ELSE LET raw_keywords == Prefix(extracted, top_n)
             filtered == Prefix(process(raw_keywords, TRUE), KeepCount)
         IN  [i \in 1..Len(filtered) |->
                 [paper_id |-> p.paper_id, keyword |-> filtered[i][1],
                  method |-> method, score |-> filtered[i][2]]]

SelectSeq2(s, Test(_)) ==
    LET f[i \in 0..Len(s)] ==
            IF i = 0 THEN << >>
            ELSE LET prev == f[i-1]
                 IN  IF Test(s[i]) THEN Append(prev, s[i]) ELSE prev
    IN  f[Len(s)]

\* A plain INSERT on a table without the UNIQUE constraint.
save_paper_keyword_insert(rows, next_id, pk) ==
    Append(rows, [id |-> next_id, paper_id |-> pk.paper_id,
                  keyword |-> Strip(PyLower(pk.keyword)),
                  method |-> pk.method, score |-> pk.score])

\* AnalysisRepository.save_paper_keyword on the table rows and the next
\* AUTOINCREMENT id: INSERT OR REPLACE under UNIQUE(paper_id, keyword, method).
save_paper_keyword(rows, next_id, pk) ==
    LET kw == Strip(PyLower(pk.keyword))
        Other(r) == ~(r.paper_id = pk.paper_id /\ r.keyword = kw /\ r.method = pk.method)
    IN  Append(SelectSeq2(rows, Other),
               [id |-> next_id, paper_id |-> pk.paper_id, keyword |-> kw,
                method |-> pk.method, score |-> pk.score])

\* for pk in keywords: save_paper_keyword(pk)
SaveAll(rows, next_id, pks) ==
    LET f[i \in 0..Len(pks)] ==
            IF i = 0 THEN rows
            ELSE LET prev == f[i-1]
                 IN  save_paper_keyword(prev, next_id + i - 1, pks[i])
    IN  f[Len(pks)]

\* The stored assignments without their row ids.
RowSet(rows) ==
    { <<rows[i].paper_id, rows[i].keyword, rows[i].method, rows[i].score>> :
        i \in 1..Len(rows) }

NoOut == [via |-> "none", fuzzy_dedup |-> FALSE, top_n |-> 0, result |-> << >>]

(***************************************************************************)
(* Specification of the filter as a function of its input                  *)
(***************************************************************************)
LinkIdle ==
    /\ raw_papers = << >> /\ papers = << >> /\ paper_sources = << >>
    /\ venues = << >> /\ venue_cache = << >> /\ last_stats = Null
CurateIdle ==
    /\ cands = << >> /\ paper = Null /\ out = NoOut /\ runs = << >>
    /\ paper_keywords = << >> /\ next_kw_id = 1 /\ rows_after = << >>
VenueIdle == rec = Null /\ detected = NotCalled /\ reprocessed = NotCalled
TrendIdle ==
    /\ clock = 1 /\ arxiv_timeseries = {} /\ analysis_meta = {}
    /\ arxiv_emerging = {} /\ trend_result = NotCalled

InitFilter ==
    /\ cands \in FilterInputs
    /\ paper \in CuratedPapers
    /\ out = NoOut
    /\ runs = << >> /\ paper_keywords = << >> /\ next_kw_id = 1 /\ rows_after = << >>
    /\ LinkIdle /\ VenueIdle /\ TrendIdle

\* KeywordFilter.process(cands, fuzzy_dedup)
Process(fuzzy) ==
    /\ out' = [via |-> "process", fuzzy_dedup |-> fuzzy, top_n |-> 0,
               result |-> process(cands, fuzzy)]
    /\ UNCHANGED << cands, paper, runs, paper_keywords, next_kw_id, rows_after >>
    /\ UNCHANGED linkVars /\ UNCHANGED venueVars /\ UNCHANGED trendVars

\* filter_keywords(cands, fuzzy_dedup)
FilterKeywords(fuzzy) ==
    /\ out' = [via |-> "filter_keywords", fuzzy_dedup |-> fuzzy, top_n |-> 0,
               result |-> filter_keywords(cands, fuzzy)]
    /\ UNCHANGED << cands, paper, runs, paper_keywords, next_kw_id, rows_after >>
    /\ UNCHANGED linkVars /\ UNCHANGED venueVars /\ UNCHANGED trendVars

\* AnalysisAgent.process_paper(paper, method, top_n), the extractor
\* yielding cands; it always filters with fuzzy_dedup=True.
ProcessPaper(method, top_n) ==
    /\ out' = [via |-> "process_paper", fuzzy_dedup |-> TRUE, top_n |-> top_n,
               result |-> process_paper(paper, method, top_n, cands)]
    /\ UNCHANGED << cands, paper, runs, paper_keywords, next_kw_id, rows_after >>
    /\ UNCHANGED linkVars /\ UNCHANGED venueVars /\ UNCHANGED trendVars

NextFilter ==
    \/ \E fuzzy \in BOOLEAN : Process(fuzzy)
    \/ \E fuzzy \in BOOLEAN : FilterKeywords(fuzzy)
    \/ \E method \in Methods, top_n \in TopNs : ProcessPaper(method, top_n)

SpecFilter == InitFilter /\ [][NextFilter]_vars

(***************************************************************************)
(* Specification of curation runs on one paper                             *)
(***************************************************************************)
InitCurate ==
    /\ cands \in CurateInputs
    /\ paper \in CuratedPapers
    /\ out = NoOut
    /\ runs = << >> /\ paper_keywords = << >> /\ next_kw_id = 1 /\ rows_after = << >>
    /\ LinkIdle /\ VenueIdle /\ TrendIdle

\* One paper's turn in AnalysisAgent.run: process_paper, then
\* save_paper_keyword for every returned PaperKeyword.
CuratePaper(method, top_n) ==
    /\ Len(runs) < MaxRuns
    /\ \E keywords \in { process_paper(paper, method, top_n, cands) } :
       \E saved \in { SaveAll(paper_keywords, next_kw_id, keywords) } :
          /\ runs' = Append(runs, [method |-> method, top_n |-> top_n,
                                   keywords |-> keywords])
          /\ paper_keywords' = saved
          /\ next_kw_id' = next_kw_id + Len(keywords)
          /\ rows_after' = Append(rows_after, RowSet(saved))
    /\ UNCHANGED << cands, paper, out >>
    /\ UNCHANGED linkVars /\ UNCHANGED venueVars /\ UNCHANGED trendVars

NextCurate == \E method \in Methods, top_n \in TopNs : CuratePaper(method, top_n)

SpecCurate == InitCurate /\ [][NextCurate]_vars

(***************************************************************************)
(* Properties of the keyword curator                                       *)
(***************************************************************************)
\* The <<term, score>> pairs of the last call's result.
OutPairs ==
    IF out.via = "process_paper"
    THEN [i \in 1..Len(out.result) |-> <<out.result[i].keyword, out.result[i].score>>]
    ELSE out.result

\* The candidate list the last call handed to KeywordFilter.process.
OutInput ==
    IF out.via = "process_paper"
    THEN IF Len(text_for_extraction(paper)) < MinTextLen THEN << >>
         ELSE Prefix(cands, out.top_n)
    ELSE cands

\* Scores of the candidates of a list that reach exact dedup as term t.
ScoresOf(t, list) == { list[i][2] : i \in { k \in 1..Len(list) : Canonical(list[k][1]) = t } }
TimesSeen(t, list) == Cardinality({ k \in 1..Len(list) : Canonical(list[k][1]) = t })
MaxOf(S) == CHOOSE m \in S : \A x \in S : x <= m
Entries(t, pairs) == { i \in 1..Len(pairs) : pairs[i][1] = t }
TermsOf(pairs) == { pairs[i][1] : i \in 1..Len(pairs) }

\* C5: curating a paper again with the same arguments and the same
\* candidate list returns the same list, in the same order, and leaves the
\* stored keyword rows as they were after the first time, with no two rows
\* for one (paper, keyword, method) triple.
C5_CurateTwiceSame ==
    /\ \A i \in 1..(Len(runs) - 1) :
          (runs[i].method = runs[i+1].method /\ runs[i].top_n = runs[i+1].top_n)
              => /\ runs[i+1].keywords = runs[i].keywords
                 /\ rows_after[i+1] = rows_after[i]
    /\ \A i, j \in 1..Len(paper_keywords) :
          ( /\ paper_keywords[i].paper_id = paper_keywords[j].paper_id
            /\ paper_keywords[i].keyword = paper_keywords[j].keyword
            /\ paper_keywords[i].method = paper_keywords[j].method ) => i = j

\* A second run with the arguments of the first that returned several keywords.
C5_Witness ==
    /\ Len(runs) >= 2
    /\ runs[1].method = runs[2].method /\ runs[1].top_n = runs[2].top_n
    /\ Len(runs[2].keywords) >= 2
    /\ Len(paper_keywords) = Len(runs[2].keywords)
    /\ next_kw_id > 2 * Len(runs[2].keywords)

\* C6 as claimed: every curator entry point returns at most the maximum
\* number of entries.
C6_OutputBounded == Len(out.result) <= KeepCount

\* C6: AnalysisAgent.process_paper returns at most 10 entries.
C6_ProcessPaperBounded == out.via = "process_paper" => Len(out.result) <= KeepCount

\* process_paper cut a filter result that was longer than the cap.
C6_Witness ==
    /\ out.via = "process_paper"
    /\ Len(out.result) = KeepCount
    /\ Len(process(OutInput, TRUE)) > KeepCount

\* C7: a term that several candidates map to has at most one entry in the
\* output, and that entry carries the highest score among those candidates.
C7_ExactDedupMax ==
    out.via # "none" =>
        \A t \in { Canonical(OutInput[k][1]) : k \in 1..Len(OutInput) } \ { Null } :
            TimesSeen(t, OutInput) > 1 =>
                /\ Cardinality(Entries(t, OutPairs)) <= 1
                /\ \A i \in Entries(t, OutPairs) : OutPairs[i][2] = MaxOf(ScoresOf(t, OutInput))

\* Two candidates with different scores collapsed to one output entry, the
\* higher-scoring one arriving second.
C7_Witness ==
    /\ out.via = "process"
    /\ \E a, b \in 1..Len(cands) :
          /\ a < b /\ cands[a][1] # cands[b][1] /\ cands[a][2] < cands[b][2]
          /\ Canonical(cands[a][1]) # Null
          /\ Canonical(cands[a][1]) = Canonical(cands[b][1])
          /\ Entries(Canonical(cands[a][1]), OutPairs) # {}

\* The terms holding the strictly highest score of a list of pairs.
SingleTop(pairs) ==
    { pairs[i][1] : i \in { k \in 1..Len(pairs) :
                              \A m \in 1..Len(pairs) : m # k => pairs[m][2] < pairs[k][2] } }

\* C8: with fuzzy dedup the result is no longer than without it, and the
\* term with the single highest score after exact dedup is in both results.
C8_FuzzyMonotone ==
    out.via \in { "process", "filter_keywords" } =>
        LET other == process(cands, ~out.fuzzy_dedup)
            fuzzy == IF out.fuzzy_dedup THEN out.result ELSE other
            exact == IF out.fuzzy_dedup THEN other ELSE out.result
        IN  /\ Len(fuzzy) <= Len(exact)
            /\ SingleTop(exact) \subseteq TermsOf(fuzzy)
            /\ SingleTop(exact) \subseteq TermsOf(exact)

\* Fuzzy dedup dropped a term and a single highest-scoring term exists.
C8_Witness ==
    /\ out.via = "process" /\ out.fuzzy_dedup
    /\ Len(out.result) < Len(process(cands, FALSE))
    /\ SingleTop(process(cands, FALSE)) # {}

ScoreOrdered(pairs) == \A i, j \in 1..Len(pairs) : i < j => pairs[i][2] >= pairs[j][2]

\* C9 as claimed: with fuzzy dedup on or off, the output lists a
\* higher-scoring term before a lower-scoring one.
C9_ScoreOrder == out.via # "none" => ScoreOrdered(OutPairs)

\* C9: with fuzzy dedup enabled the output is in non-increasing score
\* order whatever the order of the input, and the terms process_paper cuts
\* off score no higher than the ones it keeps.
C9_ScoreOrderFuzzy ==
    (out.via # "none" /\ out.fuzzy_dedup) =>
        /\ ScoreOrdered(OutPairs)
        /\ LET full == process(OutInput, TRUE)
           IN  \A i \in 1..Len(OutPairs), j \in 1..Len(full) :
                   full[j][1] \notin TermsOf(OutPairs) => full[j][2] <= OutPairs[i][2]

\* An input that arrives in increasing score order comes out ordered.
C9_Witness ==
    /\ out.via = "process" /\ out.fuzzy_dedup
    /\ Len(out.result) >= 2
    /\ out.result[1][2] > out.result[2][2]
    /\ \E a, b \in 1..Len(cands) : a < b /\ cands[a][2] < cands[b][2]
                                    /\ Canonical(cands[a][1]) = out.result[2][1]
                                    /\ Canonical(cands[b][1]) = out.result[1][1]


(***************************************************************************)
(* StructuringAgent: venue detection and domain classification             *)
(* (src/src/agents/structuring_agent.py)                                   *)
(***************************************************************************)
\* The value of an absent year (NULL / None); real years are positive.
NoYear == -1

\* \b of Python's re at the gap before position i of t.
WordBoundary(t, i) ==
    (i > 1 /\ IsWordCh(Ch(t, i - 1))) # (i <= Len(t) /\ IsWordCh(Ch(t, i)))

\* w occurs in t at position i.
At(t, w, i) == i >= 1 /\ i + Len(w) - 1 <= Len(t) /\ SubSeq(t, i, i + Len(w) - 1) = w

\* The four shapes of regular expression in VENUE_PATTERNS, each searched
\* with re.IGNORECASE: \bW\b, a literal phrase, \bACL\s*20\d{2}\b and
\* North American.*ACL.
Word(w) == [kind |-> "word", folded |-> PyLower(w)]
Phrase(w) == [kind |-> "phrase", folded |-> PyLower(w)]
AclYear == [kind |-> "acl_year", folded |-> "acl"]
NorthAmericanAcl == [kind |-> "dotstar", folded |-> "north american"]

VENUE_PATTERNS ==
    << [venue |-> "ICML", patterns |-> << Word("ICML"), Phrase("International Conference on Machine Learning") >>],
       [venue |-> "NeurIPS", patterns |-> << Word("NeurIPS"), Word("NIPS"), Phrase("Neural Information Processing") >>],
       [venue |-> "ICLR", patterns |-> << Word("ICLR"), Phrase("International Conference on Learning Representations") >>],
       [venue |-> "CVPR", patterns |-> << Word("CVPR"), Phrase("Computer Vision and Pattern Recognition") >>],
       [venue |-> "ICCV", patterns |-> << Word("ICCV"), Phrase("International Conference on Computer Vision") >>],
       [venue |-> "ECCV", patterns |-> << Word("ECCV"), Phrase("European Conference on Computer Vision") >>],
       [venue |-> "ACL", patterns |-> << AclYear, Phrase("Annual Meeting of the Association for Computational Linguistics") >>],
       [venue |-> "EMNLP", patterns |-> << Word("EMNLP"), Phrase("Empirical Methods in Natural Language Processing") >>],
       [venue |-> "NAACL", patterns |-> << Word("NAACL"), NorthAmericanAcl >>],
       [venue |-> "AAAI", patterns |-> << Word("AAAI"), Phrase("AAAI Conference on Artificial Intelligence") >>],
       [venue |-> "IJCAI", patterns |-> << Word("IJCAI"), Phrase("International Joint Conference on Artificial Intelligence") >>],
       [venue |-> "CoRL", patterns |-> << Word("CoRL"), Phrase("Conference on Robot Learning") >>],
       [venue |-> "AISTATS", patterns |-> << Word("AISTATS"), Phrase("Artificial Intelligence and Statistics") >> ] >>

\* re.search(pattern, text, re.IGNORECASE) is not None, t being the
\* lower-cased text.
Search(pattern, t) ==
    LET w == pattern.folded
        n == Len(w)
    IN  CASE pattern.kind = "word" ->
                \E i \in 1..Len(t) :
                    At(t, w, i) /\ WordBoundary(t, i) /\ WordBoundary(t, i + n)
          [] pattern.kind = "phrase" -> Contains(t, w)
          [] pattern.kind = "acl_year" ->
                \E i \in 1..Len(t) : \E k \in 0..Len(t) :
                    /\ At(t, w, i) /\ WordBoundary(t, i)
                    /\ \A s \in (i + n)..(i + n + k - 1) : s <= Len(t) /\ IsSpace(Ch(t, s))
                    /\ At(t, "20", i + n + k)
                    /\ i + n + k + 3 <= Len(t)
                    /\ IsDigit(Ch(t, i + n + k + 2)) /\ IsDigit(Ch(t, i + n + k + 3))
                    /\ WordBoundary(t, i + n + k + 4)
          [] pattern.kind = "dotstar" ->
                \E i \in 1..Len(t) : \E j \in 1..Len(t) :
                    /\ At(t, w, i) /\ j >= i + n /\ At(t, "acl", j)
                    /\ \A s \in (i + n)..(j - 1) : Ch(t, s) # "\n"

\* The first index of a sequence satisfying a test, 0 when there is none.
FirstIndex(s, Test(_)) ==
    IF \E i \in 1..Len(s) : Test(s[i])
    THEN CHOOSE i \in 1..Len(s) : Test(s[i]) /\ \A j \in 1..(i - 1) : ~Test(s[j])
    ELSE 0

\* StructuringAgent._match_venue_patterns: the first venue of the table
\* with a matching pattern, Null when no pattern matches.
_match_venue_patterns(text) ==
    LET t == PyLower(text)
        Hit(entry) == \E p \in 1..Len(entry.patterns) : Search(entry.patterns[p], t)
        v == FirstIndex(VENUE_PATTERNS, Hit)
    IN  IF v = 0 THEN Null ELSE VENUE_PATTERNS[v].venue

\* Python truthiness of an optional string field.
Given(field) == field # Null /\ field # ""

\* StructuringAgent._detect_venue: (venue_name, confidence in hundredths)
_detect_venue(raw_paper) ==
    LET by_raw == IF Given(raw_paper.venue_raw)
                  THEN _match_venue_patterns(raw_paper.venue_raw) ELSE Null
        by_comments == IF Given(raw_paper.comments)
                       THEN _match_venue_patterns(raw_paper.comments) ELSE Null
        by_journal == IF Given(raw_paper.journal_ref)
                      THEN _match_venue_patterns(raw_paper.journal_ref) ELSE Null
    IN  IF raw_paper.source = "openreview" /\ Given(raw_paper.venue_raw)
        THEN << raw_paper.venue_raw, 100 >>
        ELSE IF by_raw # Null THEN << by_raw, 90 >>
        ELSE IF by_comments # Null THEN << by_comments, 70 >>
        ELSE IF by_journal # Null THEN << by_journal, 80 >>
        ELSE << Null, 0 >>

DOMAIN_CATEGORIES ==
    << [domain |-> "CV", keywords |-> << "cs.CV", "computer vision", "image", "video", "visual" >>],
       [domain |-> "NLP", keywords |-> << "cs.CL", "natural language", "nlp", "text", "language model" >>],
       [domain |-> "ML", keywords |-> << "cs.LG", "stat.ML", "machine learning", "deep learning" >>],
       [domain |-> "RL", keywords |-> << "cs.AI", "reinforcement learning", "robot", "control" >>],
       [domain |-> "AI", keywords |-> << "artificial intelligence", "neural network" >>] >>

\* f"{x}" of an optional string: None prints as "None".
Fmt(field) == IF field = Null THEN "None" ELSE field

\* StructuringAgent._classify_domain
_classify_domain(raw_paper) ==
    LET categories == PyLower(raw_paper.categories)
        InCats(entry) == \E k \in 1..Len(entry.keywords) : Contains(categories, entry.keywords[k])
        byCat == IF Given(raw_paper.categories) THEN FirstIndex(DOMAIN_CATEGORIES, InCats) ELSE 0
        text == PyLower(Fmt(raw_paper.title) \o " " \o Fmt(raw_paper.abstract))
        score == [d \in 1..Len(DOMAIN_CATEGORIES) |->
                     Cardinality({ k \in 1..Len(DOMAIN_CATEGORIES[d].keywords) :
                                     Contains(text, DOMAIN_CATEGORIES[d].keywords[k]) })]
        scored == { d \in 1..Len(DOMAIN_CATEGORIES) : score[d] > 0 }
        best == CHOOSE d \in scored :
                    \A e \in scored : score[e] < score[d] \/ (score[e] = score[d] /\ d <= e)
    IN  IF byCat # 0 THEN DOMAIN_CATEGORIES[byCat].domain
        ELSE IF scored # {} THEN DOMAIN_CATEGORIES[best].domain
        ELSE Null

\* StructuringAgent._determine_venue_type
_determine_venue_type(raw_paper, venue_name) ==
    IF venue_name # Null /\ venue_name # "" THEN "conference"
    ELSE IF raw_paper.source = "arxiv"
         THEN IF Given(raw_paper.journal_ref) THEN "journal" ELSE "preprint"
    ELSE IF Given(raw_paper.categories) /\ Contains(PyLower(raw_paper.categories), "article")
         THEN "journal"
    ELSE "unknown"

\* StructuringAgent._determine_quality
_determine_quality(raw_paper, venue_name) ==
    IF raw_paper.source = "openreview" THEN "accepted"
    ELSE IF venue_name # Null /\ venue_name # ""
         THEN LET comments == IF Given(raw_paper.comments) THEN raw_paper.comments ELSE ""
              IN  IF Contains(PyLower(comments), "accepted") THEN "accepted" ELSE "unknown"
    ELSE "unknown"

\* StructuringAgent._normalize_title
_normalize_title(title) == IF ~Given(title) THEN "" ELSE Strip(CollapseWs(title))

(***************************************************************************)
(* Record linkage: RawRepository, StructuredRepository, process_batch      *)
(***************************************************************************)
\* The value of an absent venue_id (NULL / None); row ids start at 1.
NoVenue == 0

\* RawRepository.save_raw_paper for a (source, source_paper_id) not stored
\* yet: the INSERT OR REPLACE inserts a row under the next raw_id.
save_raw_paper(rows, record) == Append(rows, record)

\* RawRepository.get_unprocessed_raw_papers: raw_ids without a row in
\* paper_sources, of the given source when one is given, at most `limit`
\* of them, in rowid order.
get_unprocessed_raw_papers(rows, links, source, limit) ==
    LET Unlinked(id) ==
            /\ \A l \in 1..Len(links) : links[l].raw_id # id
            /\ (Given(source) => rows[id].source = source)
    IN  Prefix(SelectSeq2([i \in 1..Len(rows) |-> i], Unlinked), limit)

\* StructuredRepository.get_venue_by_name: the venue_id, 0 when absent.
get_venue_by_name(vs, canonical_name) ==
    IF \E v \in 1..Len(vs) : vs[v].canonical_name = canonical_name
    THEN CHOOSE v \in 1..Len(vs) : vs[v].canonical_name = canonical_name
    ELSE 0

\* StructuredRepository.save_venue: INSERT OR IGNORE under UNIQUE(canonical_name)
save_venue(vs, venue) ==
    IF get_venue_by_name(vs, venue.canonical_name) # 0 THEN vs ELSE Append(vs, venue)

\* StructuringAgent._get_or_create_venue on the venues table and the
\* agent's cache; the venue_id is cache[venue_name] afterwards.
_get_or_create_venue(vs, cache, venue_name, domain) ==
    IF venue_name \in DOMAIN cache THEN [venues |-> vs, venue_cache |-> cache]
    ELSE IF get_venue_by_name(vs, venue_name) # 0
         THEN [venues |-> vs,
               venue_cache |-> (venue_name :> get_venue_by_name(vs, venue_name)) @@ cache]
    ELSE LET saved == save_venue(vs, [canonical_name |-> venue_name, domain |-> domain,
                                      venue_type |-> "conference"])
         IN  [venues |-> saved,
              venue_cache |-> (venue_name :> get_venue_by_name(saved, venue_name)) @@ cache]

\* The Paper that process_raw_paper returns (lines 116-127), given the
\* results of its steps 1-6.
structured_paper(raw_paper, canonical_title, venue_name, domain, venue_id) ==
    [canonical_title |-> canonical_title,
     year |-> raw_paper.year,
     venue_id |-> venue_id,
     venue_type |-> _determine_venue_type(raw_paper, venue_name),
     domain |-> domain,
     quality_flag |-> _determine_quality(raw_paper, venue_name)]

\* process_raw_paper, lines 112-127: `got` is what _get_or_create_venue
\* left, the venue_id being the cache entry of the venue name.
process_with_venue(raw_paper, canonical_title, venue_name, domain, got) ==
    [ok |-> TRUE, venues |-> got.venues, venue_cache |-> got.venue_cache,
     paper |-> structured_paper(raw_paper, canonical_title, venue_name, domain,
                                got.venue_cache[venue_name])]

\* process_raw_paper, lines 96-127, given the results of steps 1-3.
process_detected(vs, cache, raw_paper, canonical_title, venue_name, domain) ==
    IF canonical_title = ""
    THEN [ok |-> FALSE, venues |-> vs, venue_cache |-> cache]
    ELSE IF ~Given(venue_name)
    THEN [ok |-> TRUE, venues |-> vs, venue_cache |-> cache,
          paper |-> structured_paper(raw_paper, canonical_title, venue_name, domain, NoVenue)]
    ELSE process_with_venue(raw_paper, canonical_title, venue_name, domain,
                            _get_or_create_venue(vs, cache, venue_name, domain))

\* StructuringAgent.process_raw_paper: the Paper (ok = FALSE for an empty
\* title, where it returns None) with the venues table and the cache it
\* leaves behind.
process_raw_paper(vs, cache, raw_paper) ==
    process_detected(vs, cache, raw_paper, _normalize_title(raw_paper.title),
                     _detect_venue(raw_paper)[1], _classify_domain(raw_paper))

\* StructuredRepository.find_paper_by_title: the paper_id of a row whose
\* LOWER(canonical_title) is title.lower(), with the same year when the
\* given year is truthy; 0 when there is none.  LIMIT 1 takes the row of
\* lowest rowid.
find_paper_by_title(rows, title, year) ==
    LET key == PyLower(title)
        hits == { p \in 1..Len(rows) :
                    /\ SqliteLower(rows[p].canonical_title) = key
                    /\ ((year # NoYear /\ year # 0) => rows[p].year = year) }
    IN  IF hits = {} THEN 0 ELSE CHOOSE p \in hits : \A q \in hits : p <= q

\* StructuringAgent._find_existing_paper
_find_existing_paper(rows, title, year) ==
    find_paper_by_title(rows, PyLower(_normalize_title(title)), year)

\* StructuredRepository.save_paper: a plain INSERT
save_paper(rows, p) == Append(rows, p)

\* StructuredRepository.link_paper_source: INSERT OR IGNORE under
\* UNIQUE(paper_id, raw_id)
link_paper_source(links, paper_id, raw_id, source) ==
    IF \E l \in 1..Len(links) : links[l].paper_id = paper_id /\ links[l].raw_id = raw_id
    THEN links
    ELSE Append(links, [paper_id |-> paper_id, raw_id |-> raw_id, source |-> source,
                        confidence |-> 100])

\* The link branch also writing the new record's venue and domain to the
\* existing paper.
link_existing_overwrite(st, existing_paper_id, raw_id, raw_paper, new_paper) ==
    [st EXCEPT !.papers = [@ EXCEPT ![existing_paper_id].venue_id = new_paper.venue_id,
                                    ![existing_paper_id].domain = new_paper.domain],
               !.paper_sources =
                   link_paper_source(@, existing_paper_id, raw_id, raw_paper.source),
               !.merged = @ + 1, !.success = @ + 1]

\* process_batch, lines 318-325: the record's title and year match an
\* existing paper, which gets one more provenance link and nothing else.
link_existing(st, existing_paper_id, raw_id, raw_paper, new_paper) ==
    [st EXCEPT !.paper_sources =
                   link_paper_source(@, existing_paper_id, raw_id, raw_paper.source),
               !.merged = @ + 1, !.success = @ + 1]

\* A save whose exception is swallowed without being counted.
save_and_link_uncounted(st, raw_id, raw_paper, new_paper, fault) ==
    IF fault # "ok" THEN st
    ELSE LET saved == [st EXCEPT !.papers = save_paper(@, new_paper)]
         IN  [saved EXCEPT !.paper_sources =
                               link_paper_source(@, Len(saved.papers), raw_id,
                                                 raw_paper.source),
                           !.success = @ + 1]

\* process_batch, lines 326-333: no match; the paper is saved and linked.
\* `fault` names the repository call that raises for this record, if any.
save_and_link(st, raw_id, raw_paper, new_paper, fault) ==
    IF fault = "save" THEN [st EXCEPT !.failed = @ + 1]
    ELSE LET saved == [st EXCEPT !.papers = save_paper(@, new_paper)]
         IN  IF fault = "link" THEN [saved EXCEPT !.failed = @ + 1]
             ELSE [saved EXCEPT !.paper_sources =
                                    link_paper_source(@, Len(saved.papers), raw_id,
                                                      raw_paper.source),
                                !.success = @ + 1]

\* process_batch, lines 314-337: what follows process_raw_paper, st being
\* the state with the venues and cache it left.
process_structured(st, raw_id, raw_paper, fault, ok, new_paper, existing_paper_id) ==
    IF ~ok THEN [st EXCEPT !.failed = @ + 1]
    ELSE IF existing_paper_id # 0
         THEN IF fault = "link" THEN [st EXCEPT !.failed = @ + 1]
              ELSE link_existing(st, existing_paper_id, raw_id, raw_paper, new_paper)
    ELSE save_and_link(st, raw_id, raw_paper, new_paper, fault)

\* process_batch, lines 313-316, res being what process_raw_paper returned.
process_result(st, raw_id, raw_paper, fault, res) ==
    IF ~res.ok
    THEN process_structured(st, raw_id, raw_paper, fault, FALSE, Null, 0)
    ELSE process_structured([st EXCEPT !.venues = res.venues,
                                       !.venue_cache = res.venue_cache],
                            raw_id, raw_paper, fault, TRUE, res.paper,
                            _find_existing_paper(st.papers, res.paper.canonical_title,
                                                 res.paper.year))

\* One turn of the loop of process_batch (lines 311-340).  With the store
\* unreachable ("down") the first repository call of the turn raises, or
\* the title is empty: either way `except Exception` counts the record.
process_one(st, raw_id, raw_paper, fault) ==
    IF fault = "down" THEN [st EXCEPT !.failed = @ + 1]
    ELSE process_result(st, raw_id, raw_paper, fault,
                        process_raw_paper(st.venues, st.venue_cache, raw_paper))

\* The summary process_batch returns and the tables it leaves; no
\* statement after the fetch of line 299 lets an Exception out of the loop.
batch_outcome(processed, done) ==
    [papers |-> done.papers, paper_sources |-> done.paper_sources,
     venues |-> done.venues, venue_cache |-> done.venue_cache,
     stats |-> [processed |-> processed, success |-> done.success,
                failed |-> done.failed, merged |-> done.merged],
     raised |-> FALSE]

\* The loop of process_batch over the fetched raw_ids.
process_all(rows, todo, start, faults) ==
    LET loop[i \in 0..Len(todo)] ==
            IF i = 0 THEN start
            ELSE process_one(loop[i-1], todo[i], rows[todo[i]], faults[todo[i]])
    IN  batch_outcome(Len(todo), loop[Len(todo)])

\* StructuringAgent.process_batch(source, limit) on the stored tables;
\* faults[raw_id] is the repository call that raises for that record.
process_batch(rows, ps, links, vs, cache, source, limit, faults) ==
    process_all(rows, get_unprocessed_raw_papers(rows, links, source, limit),
                [papers |-> ps, paper_sources |-> links, venues |-> vs,
                 venue_cache |-> cache, success |-> 0, failed |-> 0, merged |-> 0],
                faults)

\* The paper row that DatabaseRepository.save_paper inserts.
compat_row(p, venue_id) ==
    [canonical_title |-> p.canonical_title, year |-> p.year, venue_id |-> venue_id,
     venue_type |-> p.venue_type, domain |-> p.domain, quality_flag |-> p.quality_flag]

\* DatabaseRepository.save_paper, the venue handled.
compat_insert(ps, vs, p) ==
    [venues |-> vs,
     papers |-> save_paper(ps, compat_row(p, IF Given(p.venue_name)
                                              THEN get_venue_by_name(vs, p.venue_name)
                                              ELSE NoVenue))]

\* DatabaseRepository.save_paper for a Paper without keywords: the venue
\* is looked up or saved, the paper row inserted; no provenance link.
compat_save_paper(ps, vs, p) ==
    compat_insert(ps,
                  IF Given(p.venue_name)
                  THEN save_venue(vs, [canonical_name |-> p.venue_name, domain |-> p.domain,
                                       venue_type |-> Null])
                  ELSE vs,
                  p)

(***************************************************************************)
(* Specification of ingestion and linkage                                  *)
(***************************************************************************)
MaxRaw == 2        \* raw records ingested
MaxLegacy == 1     \* papers table size up to which the legacy save runs
MaxPapers == 2     \* papers table size that a batch may reach

\* Titles and years of the arriving records: one paper under two
\* spellings, with and without its year and under another year, and a
\* title with a non-ASCII capital.
Identities ==
    { << " deep  NETS", 2024 >>, << "Deep Nets", NoYear >>,
      << "deep nets", 2023 >>, << "Étude", 2024 >> }

\* What a source reports besides title and year.
Evidence ==
    { [source |-> "arxiv", venue_raw |-> Null, comments |-> "CVPR 2024",
       journal_ref |-> Null, categories |-> "cs.CV", abstract |-> "image"],
      [source |-> "openreview", venue_raw |-> "ICLR 2024", comments |-> Null,
       journal_ref |-> Null, categories |-> Null, abstract |-> "text"] }

RawRecord(e, title, year) ==
    [source |-> e.source, title |-> title, abstract |-> e.abstract, year |-> year,
     venue_raw |-> e.venue_raw, journal_ref |-> e.journal_ref,
     comments |-> e.comments, categories |-> e.categories]

RawRecords ==
    { RawRecord(e, id[1], id[2]) : e \in Evidence, id \in Identities }
        \cup { RawRecord(e, "", 2024) : e \in { x \in Evidence : x.source = "arxiv" } }

LegacyPapers ==
    { [canonical_title |-> "Deep Nets", year |-> 2024, venue_name |-> "ICLR",
       venue_type |-> "unknown", domain |-> Null, quality_flag |-> "unknown"] }

Sources == { Null, "arxiv", "openreview" }
Limits == { 1, 1000 }
\* At most one repository call raises in a batch: the save or the link of
\* one record.
NoFaults == [id \in 1..MaxRaw |-> "ok"]
FaultPlans ==
    { NoFaults } \cup { [NoFaults EXCEPT ![id] = f] : id \in 1..MaxRaw, f \in { "save", "link" } }
\* limit: int = 1000
DefaultLimit == CHOOSE limit \in Limits : \A other \in Limits : other <= limit
\* The store becomes unreachable while record k is processed and stays so.
OutagePlans ==
    { [id \in 1..MaxRaw |-> IF id >= k THEN "down" ELSE "ok"] : k \in 1..MaxRaw }
NoStats == [processed |-> 0, success |-> 0, failed |-> 0, merged |-> 0]
EmptyCache == [n \in {} |-> 0]

InitLink ==
    /\ raw_papers = << >> /\ papers = << >> /\ paper_sources = << >>
    /\ venues = << >> /\ venue_cache = EmptyCache /\ last_stats = NoStats
    /\ CurateIdle /\ VenueIdle /\ TrendIdle

\* A scraper stores one more raw record.
SaveRawPaper(record) ==
    /\ Len(raw_papers) < MaxRaw
    /\ raw_papers' = save_raw_paper(raw_papers, record)
    /\ UNCHANGED << papers, paper_sources, venues, venue_cache, last_stats >>
    /\ UNCHANGED curateVars /\ UNCHANGED venueVars /\ UNCHANGED trendVars

\* StructuringAgent.process_batch(source, limit)
ProcessBatch(source, limit, faults) ==
    /\ \E r \in { process_batch(raw_papers, papers, paper_sources, venues, venue_cache,
                                source, limit, faults) } :
          /\ Len(r.papers) <= MaxPapers
          /\ papers' = r.papers
          /\ paper_sources' = r.paper_sources
          /\ venues' = r.venues
          /\ venue_cache' = r.venue_cache
          /\ last_stats' = r.stats
    /\ UNCHANGED raw_papers
    /\ UNCHANGED curateVars /\ UNCHANGED venueVars /\ UNCHANGED trendVars

\* DatabaseRepository.save_paper(p)
CompatSavePaper(p) ==
    /\ Len(papers) < MaxLegacy
    /\ \E r \in { compat_save_paper(papers, venues, p) } :
          /\ papers' = r.papers
          /\ venues' = r.venues
    /\ UNCHANGED << raw_papers, paper_sources, venue_cache, last_stats >>
    /\ UNCHANGED curateVars /\ UNCHANGED venueVars /\ UNCHANGED trendVars

NextLink ==
    \/ \E record \in RawRecords : SaveRawPaper(record)
    \/ \E source \in Sources, limit \in Limits :
          \E faults \in FaultPlans : ProcessBatch(source, limit, faults)
    \/ \E faults \in OutagePlans : ProcessBatch(Null, DefaultLimit, faults)
    \/ \E p \in LegacyPapers : CompatSavePaper(p)

SpecLink == InitLink /\ [][NextLink]_vars

(***************************************************************************)
(* Properties of record linkage                                            *)
(***************************************************************************)
\* The matching key of a title: case folded, whitespace collapsed, stripped.
TitleKey(title) == PyLower(_normalize_title(title))
LinksOf(raw_id) == { l \in 1..Len(paper_sources) : paper_sources[l].raw_id = raw_id }
LinksTo(paper_id) == { l \in 1..Len(paper_sources) : paper_sources[l].paper_id = paper_id }
PapersOf(raw_id) == { paper_sources[l].paper_id : l \in LinksOf(raw_id) }

\* C1 as claimed: two processed raw records from different sources with
\* equal title keys and equal years are linked, once each, to one paper,
\* and the catalog holds one paper for that (title, year).
C1_LinkageUnique ==
    \A a, b \in 1..Len(raw_papers) :
        ( /\ raw_papers[a].source # raw_papers[b].source
          /\ TitleKey(raw_papers[a].title) = TitleKey(raw_papers[b].title)
          /\ raw_papers[a].year = raw_papers[b].year
          /\ LinksOf(a) # {} /\ LinksOf(b) # {} )
        => /\ Cardinality(LinksOf(a)) = 1 /\ Cardinality(LinksOf(b)) = 1
           /\ PapersOf(a) = PapersOf(b)
           /\ Cardinality({ p \in 1..Len(papers) :
                              /\ PyLower(papers[p].canonical_title) = TitleKey(raw_papers[a].title)
                              /\ papers[p].year = raw_papers[a].year }) = 1

\* C2 as claimed: a provenance link joins a raw record only to a paper of
\* the same title key and the same year, a missing year matching only a
\* missing year.
C2_AttachOnlyOnEqualKey ==
    \A l \in 1..Len(paper_sources) :
        /\ PyLower(papers[paper_sources[l].paper_id].canonical_title)
               = TitleKey(raw_papers[paper_sources[l].raw_id].title)
        /\ papers[paper_sources[l].paper_id].year = raw_papers[paper_sources[l].raw_id].year

\* C3: no step of the linker changes the venue or the domain of a paper
\* that already exists; linking a further record to it leaves both as the
\* first record set them.
C3_FirstWriterWins ==
    [][\A p \in 1..Len(papers) :
           /\ p <= Len(papers')
           /\ papers'[p].venue_id = papers[p].venue_id
           /\ papers'[p].domain = papers[p].domain]_vars

\* A paper holds a second link from a record for which the venue resolver
\* and the domain classifier give something else than the paper carries.
C3_Witness ==
    \E l \in 1..Len(paper_sources) :
        /\ \E k \in 1..(l - 1) : paper_sources[k].paper_id = paper_sources[l].paper_id
        /\ papers[paper_sources[l].paper_id].venue_id # NoVenue
        /\ venues[papers[paper_sources[l].paper_id].venue_id].canonical_name
               # _detect_venue(raw_papers[paper_sources[l].raw_id])[1]
        /\ _detect_venue(raw_papers[paper_sources[l].raw_id])[1] # Null
        /\ papers[paper_sources[l].paper_id].domain
               # _classify_domain(raw_papers[paper_sources[l].raw_id])

\* C4 as claimed: every canonical paper row has at least one provenance link.
C4_EveryPaperLinked == \A p \in 1..Len(papers) : LinksTo(p) # {}

(***************************************************************************)
(* enhance_venue_detection.py: venue extraction for arXiv records          *)
(***************************************************************************)
\* The three shapes of regular expression in VENUE_PATTERNS_ENHANCED:
\*   NAME['\s]*(\d{2,4})
\*   accepted\s+(?:by|at|to)\s+NAME['\s]*(\d{2,4})?
\*   PHRASE['\s]*(\d{2,4})?
WithYear(name) == [kind |-> "year", folded |-> PyLower(name), accepted |-> FALSE]
Accepted(name) == [kind |-> "accepted", folded |-> PyLower(name), accepted |-> TRUE]
LongName(phrase) == [kind |-> "long", folded |-> PyLower(phrase), accepted |-> FALSE]

VENUE_PATTERNS_ENHANCED ==
    << [venue |-> "NeurIPS", patterns |-> << WithYear("NeurIPS"), WithYear("NIPS"), Accepted("NeurIPS"),
                                             LongName("Neural Information Processing Systems") >>],
       [venue |-> "ICLR", patterns |-> << WithYear("ICLR"), Accepted("ICLR"),
                                          LongName("International Conference on Learning Representations") >>],
       [venue |-> "ICML", patterns |-> << WithYear("ICML"), Accepted("ICML"),
                                          LongName("International Conference on Machine Learning") >>],
       [venue |-> "CVPR", patterns |-> << WithYear("CVPR"), Accepted("CVPR"),
                                          LongName("Computer Vision and Pattern Recognition") >>],
       [venue |-> "ICCV", patterns |-> << WithYear("ICCV"), Accepted("ICCV"),
                                          LongName("International Conference on Computer Vision") >>],
       [venue |-> "ECCV", patterns |-> << WithYear("ECCV"), Accepted("ECCV"),
                                          LongName("European Conference on Computer Vision") >>],
       [venue |-> "ACL", patterns |-> << WithYear("ACL"), Accepted("ACL"),
                                         LongName("Association for Computational Linguistics") >>],
       [venue |-> "EMNLP", patterns |-> << WithYear("EMNLP"), Accepted("EMNLP") >>],
       [venue |-> "NAACL", patterns |-> << WithYear("NAACL"), Accepted("NAACL") >>],
       [venue |-> "AAAI", patterns |-> << WithYear("AAAI"), Accepted("AAAI") >>],
       [venue |-> "IJCAI", patterns |-> << WithYear("IJCAI"), Accepted("IJCAI") >>],
       [venue |-> "CoRL", patterns |-> << WithYear("CoRL"), Accepted("CoRL") >>],
       [venue |-> "AISTATS", patterns |-> << WithYear("AISTATS"), Accepted("AISTATS") >> ] >>

\* The position after the longest run of characters of cs starting at i.
RECURSIVE SkipRun(_, _, _)
SkipRun(t, i, cs) == IF i <= Len(t) /\ Ch(t, i) \in cs THEN SkipRun(t, i + 1, cs) ELSE i

\* Number of digits at position i on, at most four.
DigitRun(t, i) ==
    LET e == SkipRun(t, i, DigitSet)
    IN  IF e - i > 4 THEN 4 ELSE e - i

\* int(s) for a string of digits
RECURSIVE ParseInt(_)
ParseInt(s) ==
    IF s = "" THEN 0
    ELSE 10 * ParseInt(SubSeq(s, 1, Len(s) - 1)) + (IndexIn(Ch(s, Len(s)), Digits) - 1)

\* ['\s]*(\d{2,4}) tried at position j: the number of digits captured, 0
\* when the group does not match.
YearDigitsAt(t, j) ==
    LET n == DigitRun(t, SkipRun(t, j, {"'", " ", "\t", "\n"}))
    IN  IF n >= 2 THEN n ELSE 0

\* The captured year as the code converts it: two digits count from 2000.
YearAt(t, j) ==
    LET d == SkipRun(t, j, {"'", " ", "\t", "\n"})
        n == YearDigitsAt(t, j)
        y == ParseInt(SubSeq(t, d, d + n - 1))
    IN  IF n = 0 THEN NoYear ELSE IF y < 100 THEN 2000 + y ELSE y

\* accepted\s+(?:by|at|to)\s+NAME matched at position i: the position
\* after NAME, 0 when there is no match at i.
AcceptedEnd(t, w, i) ==
    LET a == i + 8
        b == SkipRun(t, a, {" ", "\t", "\n"})
        c == b + 2
        d == SkipRun(t, c, {" ", "\t", "\n"})
    IN  IF /\ At(t, "accepted", i) /\ b > a
           /\ (At(t, "by", b) \/ At(t, "at", b) \/ At(t, "to", b))
           /\ d > c /\ At(t, w, d)
        THEN d + Len(w) ELSE 0

\* The position after the literal part of the pattern matched at i, 0
\* when the pattern does not match at i.
LiteralEnd(pattern, t, i) ==
    IF pattern.kind = "accepted" THEN AcceptedEnd(t, pattern.folded, i)
    ELSE IF ~At(t, pattern.folded, i) THEN 0
    ELSE IF pattern.kind = "year" /\ YearDigitsAt(t, i + Len(pattern.folded)) = 0 THEN 0
    ELSE i + Len(pattern.folded)

\* re.search(pattern, text, re.IGNORECASE) on the lower-cased text t: the
\* position after the literal part of the leftmost match, 0 for no match.
SearchEnhanced(pattern, t) ==
    LET starts == { i \in 1..Len(t) : LiteralEnd(pattern, t, i) # 0 }
    IN  IF starts = {} THEN 0
        ELSE LiteralEnd(pattern, t, CHOOSE i \in starts : \A k \in starts : i <= k)

NoVenueFound == [venue |-> Null, year |-> NoYear, confidence |-> 0]

\* The (venue, year) of the first pattern of the table, venue by venue,
\* that matches the text; hit = FALSE when none does.
FirstEnhancedMatch(text) ==
    LET t == PyLower(text)
        Hit(entry) == \E p \in 1..Len(entry.patterns) : SearchEnhanced(entry.patterns[p], t) # 0
        v == FirstIndex(VENUE_PATTERNS_ENHANCED, Hit)
        HitP(pattern) == SearchEnhanced(pattern, t) # 0
        p == FirstIndex(VENUE_PATTERNS_ENHANCED[v].patterns, HitP)
    IN  IF v = 0 THEN [hit |-> FALSE]
        ELSE [hit |-> TRUE, venue |-> VENUE_PATTERNS_ENHANCED[v].venue,
              year |-> YearAt(t, SearchEnhanced(VENUE_PATTERNS_ENHANCED[v].patterns[p], t)),
              accepted |-> VENUE_PATTERNS_ENHANCED[v].patterns[p].accepted]

\* extract_venue_from_comments: confidence 0.9 when the matching pattern
\* is an "accepted" one, 0.7 otherwise (in hundredths).
comments_result(m) ==
    IF ~m.hit THEN NoVenueFound
    ELSE [venue |-> m.venue, year |-> m.year,
          confidence |-> IF m.accepted THEN 90 ELSE 70]
extract_venue_from_comments(comments) ==
    IF ~Given(comments) THEN NoVenueFound ELSE comments_result(FirstEnhancedMatch(comments))

\* extract_venue_from_journal_ref: confidence 0.8
journal_ref_result(m) ==
    IF ~m.hit THEN NoVenueFound
    ELSE [venue |-> m.venue, year |-> m.year, confidence |-> 80]
extract_venue_from_journal_ref(journal_ref) ==
    IF ~Given(journal_ref) THEN NoVenueFound
    ELSE journal_ref_result(FirstEnhancedMatch(journal_ref))

\* reprocess_arxiv_papers, lines 229-246, given the two extractions: the
\* comments result is taken when it names a venue, the journal_ref result
\* when it names a venue with a higher confidence than what is held.
pick_venue(c, j) ==
    IF j.venue # Null /\ j.confidence > (IF c.venue # Null THEN c.confidence ELSE 0)
    THEN [venue |-> j.venue, year |-> j.year, confidence |-> j.confidence,
          source |-> "journal_ref"]
    ELSE IF c.venue # Null
    THEN [venue |-> c.venue, year |-> c.year, confidence |-> c.confidence,
          source |-> "comments"]
    ELSE [venue |-> Null, year |-> NoYear, confidence |-> 0, source |-> Null]

\* The venue reprocess_arxiv_papers settles on for one raw record.
choose_venue(raw_paper) ==
    pick_venue(extract_venue_from_comments(raw_paper.comments),
               extract_venue_from_journal_ref(raw_paper.journal_ref))

\* reprocess_arxiv_papers, lines 278-297: the paper linked to the record
\* gets the venue, which is created when no venue has that name.
update_paper_venue(st, paper_id, venue_name, vs2) ==
    [st EXCEPT !.venues = vs2,
               !.papers = [@ EXCEPT ![paper_id].venue_id = get_venue_by_name(vs2, venue_name),
                                    ![paper_id].venue_type = "conference"]]

\* reprocess_arxiv_papers, lines 248-301, for one record and its choice.
apply_choice(st, links, raw_id, choice, dry_run) ==
    LET mine == { l \in 1..Len(links) : links[l].raw_id = raw_id }
        found == [st EXCEPT !.choices = Append(@, [raw_id |-> raw_id] @@ choice)]
    IN  IF choice.venue = Null \/ dry_run \/ mine = {} THEN found
        ELSE update_paper_venue(found,
                                links[CHOOSE l \in mine : \A k \in mine : l <= k].paper_id,
                                choice.venue,
                                save_venue(st.venues, [canonical_name |-> choice.venue,
                                                       domain |-> Null,
                                                       venue_type |-> "conference"]))

\* reprocess_arxiv_papers(dry_run) on the stored tables.  The statistics
\* printed at the end divide by the number of arXiv records, so the call
\* raises when there is none.
reprocess_arxiv_papers(rows, ps, links, vs, dry_run) ==
    LET IsArxiv(id) == rows[id].source = "arxiv"
        arxiv_papers == SelectSeq2([i \in 1..Len(rows) |-> i], IsArxiv)
        loop[i \in 0..Len(arxiv_papers)] ==
            IF i = 0 THEN [papers |-> ps, venues |-> vs, choices |-> << >>]
            ELSE apply_choice(loop[i-1], links, arxiv_papers[i],
                              choose_venue(rows[arxiv_papers[i]]), dry_run)
    IN  [raised |-> Len(arxiv_papers) = 0] @@ loop[Len(arxiv_papers)]

(***************************************************************************)
(* Specification of venue resolution for one record                        *)
(***************************************************************************)
VenueRawPool == { Null, "ICML 2024", "Workshop at NAACL" }
CommentsPool == { Null, "CVPR 2024", "accepted at ICCV", "accepted by NeurIPS'23",
                  "12 pages", "NAACL 2024" }
JournalRefPool == { Null, "ICLR 2025", "Proc. CVPR 2024" }

VenueRecords ==
    { [source |-> s, title |-> "Deep Nets", abstract |-> "text", year |-> 2024,
       venue_raw |-> v, journal_ref |-> j, comments |-> c, categories |-> Null] :
        s \in { "arxiv", "openreview" }, v \in VenueRawPool,
        c \in CommentsPool, j \in JournalRefPool }

InitVenue ==
    /\ rec \in VenueRecords
    /\ raw_papers = << rec >>
    /\ papers = << >> /\ paper_sources = << >>
    /\ venues = << >> /\ venue_cache = EmptyCache /\ last_stats = NoStats
    /\ detected = NotCalled /\ reprocessed = NotCalled
    /\ CurateIdle /\ TrendIdle

\* StructuringAgent._detect_venue(rec)
DetectVenue ==
    /\ \E d \in { _detect_venue(rec) } :
          detected' = [called |-> TRUE, venue |-> d[1], confidence |-> d[2]]
    /\ UNCHANGED << rec, reprocessed >>
    /\ UNCHANGED linkVars /\ UNCHANGED curateVars /\ UNCHANGED trendVars

\* reprocess_arxiv_papers(dry_run)
ReprocessArxivPapers(dry_run) ==
    /\ \E r \in { reprocess_arxiv_papers(raw_papers, papers, paper_sources, venues, dry_run) } :
          /\ papers' = r.papers
          /\ venues' = r.venues
          /\ reprocessed' = [called |-> TRUE, dry_run |-> dry_run, raised |-> r.raised,
                             choices |-> r.choices]
    /\ UNCHANGED << raw_papers, paper_sources, venue_cache, last_stats, rec, detected >>
    /\ UNCHANGED curateVars /\ UNCHANGED trendVars

NextVenue ==
    \/ DetectVenue
    \/ ProcessBatch(Null, 1000, NoFaults)
    \/ \E dry_run \in BOOLEAN : ReprocessArxivPapers(dry_run)

SpecVenue == InitVenue /\ [][NextVenue]_vars

(***************************************************************************)
(* Properties of venue resolution                                          *)
(***************************************************************************)
\* The venue a field matches under StructuringAgent's patterns.
FieldVenue(field) == IF Given(field) THEN _match_venue_patterns(field) ELSE Null

\* _detect_venue took its venue from the first matching field in the
\* order venue_raw, comments, journal_ref.
DetectedInOrder ==
    /\ ( /\ FieldVenue(rec.venue_raw) # Null /\ FieldVenue(rec.comments) # Null
         /\ FieldVenue(rec.venue_raw) # FieldVenue(rec.comments) )
       => detected.venue \in { FieldVenue(rec.venue_raw), rec.venue_raw }
    /\ ( /\ ~Given(rec.venue_raw)
         /\ FieldVenue(rec.comments) # Null /\ FieldVenue(rec.journal_ref) # Null
         /\ FieldVenue(rec.comments) # FieldVenue(rec.journal_ref) )
       => detected.venue = FieldVenue(rec.comments)

\* reprocess_arxiv_papers chose the comments venue for every record whose
\* comments and journal_ref name different venues.
ReprocessedInOrder ==
    \A i \in 1..Len(reprocessed.choices) :
        LET raw == raw_papers[reprocessed.choices[i].raw_id]
            c == extract_venue_from_comments(raw.comments).venue
            j == extract_venue_from_journal_ref(raw.journal_ref).venue
        IN  (c # Null /\ j # Null /\ c # j) => reprocessed.choices[i].venue = c

\* C10 as claimed: venue_raw decides before comments and comments before
\* journal_ref, in StructuringAgent._detect_venue and in
\* reprocess_arxiv_papers alike, whatever the confidence values.
C10_EvidenceOrder ==
    /\ detected.called => DetectedInOrder
    /\ reprocessed.called => ReprocessedInOrder

(***************************************************************************)
(* Confidence of a venue resolved from the comments field                  *)
(***************************************************************************)
\* The comment says the paper was accepted by/at/to a venue, or is to
\* appear at one.
AcceptedPhrasing(comments) ==
    LET t == CollapseWs(PyLower(comments))
    IN  \/ Contains(t, "accepted by ") \/ Contains(t, "accepted at ")
        \/ Contains(t, "accepted to ") \/ Contains(t, "to appear at ")

\* _detect_venue reached the comments field and took its venue from it.
DetectedFromComments ==
    /\ detected.called
    /\ ~(rec.source = "openreview" /\ Given(rec.venue_raw))
    /\ FieldVenue(rec.venue_raw) = Null
    /\ FieldVenue(rec.comments) # Null

\* C11 as claimed: a venue resolved from the comments field has confidence
\* 0.9 when the comment has an accepted / to-appear phrasing and 0.7 when
\* it merely mentions the venue, in StructuringAgent._detect_venue and in
\* extract_venue_from_comments alike; "accepted by NeurIPS'23" resolves to
\* NeurIPS with confidence 0.9 and year 2023.
C11_CommentsConfidence ==
    /\ DetectedFromComments
       => detected.confidence = (IF AcceptedPhrasing(rec.comments) THEN 90 ELSE 70)
    /\ reprocessed.called
       => \A i \in 1..Len(reprocessed.choices) :
            LET ch == reprocessed.choices[i]
                comments == raw_papers[ch.raw_id].comments
            IN  /\ ch.source = "comments"
                   => ch.confidence = (IF AcceptedPhrasing(comments) THEN 90 ELSE 70)
                /\ (comments = "accepted by NeurIPS'23" /\ ch.source = "comments")
                   => (ch.venue = "NeurIPS" /\ ch.confidence = 90 /\ ch.year = 2023)

(***************************************************************************)
(* Calendar: datetime.strftime, datetime.isocalendar, date.fromisoformat   *)
(***************************************************************************)
\* A date field of a paper dict: None, a datetime, or a string.
NoDate == [kind |-> "none"]
DateTime(y, m, d) == [kind |-> "datetime", y |-> y, m |-> m, d |-> d]
DateStr(text) == [kind |-> "str", text |-> text]

IsLeap(y) == (y % 4 = 0 /\ y % 100 # 0) \/ y % 400 = 0
DaysInMonth(y, m) ==
    IF m = 2 THEN (IF IsLeap(y) THEN 29 ELSE 28)
    ELSE IF m \in {4, 6, 9, 11} THEN 30 ELSE 31

\* Day of the year, 1-based.
DayOfYear(dt) ==
    LET before[m \in 1..12] == IF m = 1 THEN 0 ELSE before[m-1] + DaysInMonth(dt.y, m-1)
    IN  before[dt.m] + dt.d

\* date.toordinal(): 0001-01-01, a Monday, has ordinal 1.
ToOrdinal(y, doy) ==
    365 * (y - 1) + ((y - 1) \div 4) - ((y - 1) \div 100) + ((y - 1) \div 400) + doy

\* date.isoweekday(): Monday = 1 .. Sunday = 7
IsoWeekday(y, doy) == ((ToOrdinal(y, doy) - 1) % 7) + 1

\* Number of ISO weeks of a year: 53 when January 1st is a Thursday, or a
\* Wednesday in a leap year.
IsoWeeksInYear(y) ==
    IF IsoWeekday(y, 1) = 4 \/ (IsLeap(y) /\ IsoWeekday(y, 1) = 3) THEN 53 ELSE 52

\* datetime.isocalendar(): the ISO year and ISO week of a date
isocalendar(dt) ==
    LET doy == DayOfYear(dt)
        w == (doy - IsoWeekday(dt.y, doy) + 10) \div 7
    IN  IF w < 1 THEN [year |-> dt.y - 1, week |-> IsoWeeksInYear(dt.y - 1)]
        ELSE IF w > IsoWeeksInYear(dt.y) THEN [year |-> dt.y + 1, week |-> 1]
        ELSE [year |-> dt.y, week |-> w]

\* str(n) for a natural number
RECURSIVE Str(_)
Str(n) == IF n < 10 THEN Ch(Digits, n + 1) ELSE Str(n \div 10) \o Ch(Digits, (n % 10) + 1)

\* n, zero-padded to the given width (%02d, %Y, %m, %d)
RECURSIVE Pad(_, _)
Pad(n, width) == IF Len(Str(n)) >= width THEN Str(n) ELSE "0" \o Pad(n, width - 1)

\* The digits of s from position i to j as a number; -1 when one of them
\* is not a digit.
DigitsValue(s, i, j) ==
    IF \A k \in i..j : IsDigit(Ch(s, k)) THEN ParseInt(SubSeq(s, i, j)) ELSE -1

\* datetime.fromisoformat(text) for a date-only string: the datetime, or
\* NoDate when the call raises ValueError.
fromisoformat(text) ==
    IF Len(text) # 10 \/ Ch(text, 5) # "-" \/ Ch(text, 8) # "-" THEN NoDate
    ELSE LET y == DigitsValue(text, 1, 4)
             m == DigitsValue(text, 6, 7)
             d == DigitsValue(text, 9, 10)
         IN  IF y < 1 \/ m < 1 \/ m > 12 \/ d < 1 THEN NoDate
             ELSE IF d > DaysInMonth(y, m) THEN NoDate
             ELSE DateTime(y, m, d)

(***************************************************************************)
(* ArxivAnalysisAgent: grouping papers into time buckets                   *)
(***************************************************************************)
\* Python truthiness of a date field: None and "" are falsy.
DateGiven(f) == f.kind = "datetime" \/ (f.kind = "str" /\ f.text # "")

\* The date a paper is bucketed by in _group_by_month/_week/_day:
\* published_at, else retrieved_at; a string is parsed, and the paper is
\* skipped (NoDate) when parsing fails or neither field is given.
bucket_date(p) ==
    LET date_field == IF DateGiven(p.published_at) THEN p.published_at
                      ELSE p.retrieved_at
    IN  IF date_field.kind = "str"
        THEN (IF date_field.text = "" THEN NoDate ELSE fromisoformat(date_field.text))
        ELSE date_field

\* The bucket keys of the four granularities; Null when the paper is skipped.
year_key(p) == IF p.year # NoYear /\ p.year # 0 THEN Str(p.year) ELSE Null
month_key(p) ==
    LET dt == bucket_date(p)
    IN  IF dt = NoDate THEN Null ELSE Pad(dt.y, 4) \o "-" \o Pad(dt.m, 2)
week_key(p) ==
    LET dt == bucket_date(p)
    IN  IF dt = NoDate THEN Null
        ELSE Str(isocalendar(dt).year) \o "-W" \o Pad(isocalendar(dt).week, 2)
day_key(p) ==
    LET dt == bucket_date(p)
    IN  IF dt = NoDate THEN Null
        ELSE Pad(dt.y, 4) \o "-" \o Pad(dt.m, 2) \o "-" \o Pad(dt.d, 2)

\* buckets[bucket_key].append(paper) on a defaultdict(list) kept in
\* insertion order: a sequence of [bucket, papers].
bucket_append(buckets, bucket_key, p) ==
    IF bucket_key = Null THEN buckets
    ELSE IF \E b \in 1..Len(buckets) : buckets[b].bucket = bucket_key
    THEN [b \in 1..Len(buckets) |->
            IF buckets[b].bucket = bucket_key
            THEN [buckets[b] EXCEPT !.papers = Append(@, p)]
            ELSE buckets[b]]
    ELSE Append(buckets, [bucket |-> bucket_key, papers |-> << p >>])

group_by(ps, Key(_)) ==
    LET f[i \in 0..Len(ps)] ==
            IF i = 0 THEN << >>
            ELSE bucket_append(f[i-1], Key(ps[i]), ps[i])
    IN  f[Len(ps)]

_group_by_year(ps) == group_by(ps, year_key)
_group_by_month(ps) == group_by(ps, month_key)
_group_by_week(ps) == group_by(ps, week_key)
_group_by_day(ps) == group_by(ps, day_key)

Granularities == { "year", "month", "week", "day" }

\* The dispatch on granularity in ArxivAnalysisAgent.run, lines 81-88.
group_papers(granularity, ps) ==
    IF granularity = "year" THEN _group_by_year(ps)
    ELSE IF granularity = "month" THEN _group_by_month(ps)
    ELSE IF granularity = "week" THEN _group_by_week(ps)
    ELSE _group_by_day(ps)

(***************************************************************************)
(* ArxivAnalysisAgent: bucket keywords                                     *)
(***************************************************************************)
FREQUENCY_STOPWORDS ==
    { "a", "an", "the", "and", "or", "but", "in", "on", "at", "to", "for",
      "of", "with", "by", "from", "is", "are", "was", "were", "be", "been",
      "being", "have", "has", "had", "do", "does", "did", "will", "would",
      "could", "should", "may", "must", "can", "this", "that",
      "these", "those", "it", "its", "as", "we", "our", "their", "your",
      "paper", "study", "analysis", "approach", "method", "methods",
      "model", "models", "learning", "network", "networks", "neural",
      "deep", "data", "using", "via", "based", "novel", "new", "towards",
      "propose", "proposed", "present", "show", "demonstrate", "introduce",
      "framework", "system", "algorithm", "technique", "techniques" }

AsciiLetterSet == CharsOf(LowerAscii) \cup CharsOf(UpperAscii)
IsAsciiLetter(c) == c \in AsciiLetterSet

\* re.findall(r'\b[a-zA-Z]{3,}\b', t): the runs of three or more ASCII
\* letters that begin and end at a word boundary, left to right.
title_words(t) ==
    LET n == Len(t)
        \* letters[i]: length of the run of ASCII letters starting at i
        letters[i \in 1..n+1] ==
            IF i = n + 1 THEN 0
            ELSE IF IsAsciiLetter(Ch(t, i)) THEN 1 + letters[i+1] ELSE 0
        Hit(i) == /\ letters[i] >= 3
                  /\ (i = 1 \/ ~IsWordCh(Ch(t, i-1)))
                  /\ (i + letters[i] > n \/ ~IsWordCh(Ch(t, i + letters[i])))
        f[i \in 0..n] ==
            IF i = 0 THEN << >>
            ELSE LET prev == f[i-1]
                 IN  IF Hit(i) THEN Append(prev, SubSeq(t, i, i + letters[i] - 1)) ELSE prev
    IN  f[n]

\* Counter update in first-seen order: a sequence of [keyword, count].
count_word(counts, word) ==
    IF \E c \in 1..Len(counts) : counts[c].keyword = word
    THEN [c \in 1..Len(counts) |->
            IF counts[c].keyword = word
            THEN [counts[c] EXCEPT !.count = @ + 1] ELSE counts[c]]
    ELSE Append(counts, [keyword |-> word, count |-> 1])

\* Counter.most_common(limit): by count, highest first, equal counts in
\* first-seen order.
most_common(counts, limit) ==
    LET Before(a, b) == counts[a].count > counts[b].count
                        \/ (counts[a].count = counts[b].count /\ a < b)
        Rank(a) == Cardinality({ b \in 1..Len(counts) : Before(b, a) }) + 1
        sorted == [r \in 1..Len(counts) |->
                     counts[CHOOSE a \in 1..Len(counts) : Rank(a) = r]]
    IN  Prefix(sorted, limit)

\* _extract_with_frequency(papers, limit)
_extract_with_frequency(ps, limit) ==
    LET words == [i \in 1..Len(ps) |->
                     SelectSeq(title_words(PyLower(ps[i].title)),
                               LAMBDA w : w \notin FREQUENCY_STOPWORDS)]
        perPaper[i \in 0..Len(ps)] ==
            IF i = 0 THEN << >>
            ELSE LET inner[k \in 0..Len(words[i])] ==
                         IF k = 0 THEN perPaper[i-1]
                         ELSE count_word(inner[k-1], words[i][k])
                 IN  inner[Len(words[i])]
    IN  most_common(perPaper[Len(ps)], limit)

\* _extract_bucket_keywords(papers, limit = 10) when no canonical paper
\* carries keywords for these titles: what the YAKE strategy yields when it
\* yields something, the title word frequencies otherwise.
_extract_bucket_keywords(ps, limit, keywords_from_yake) ==
    IF keywords_from_yake # << >> THEN keywords_from_yake
    ELSE _extract_with_frequency(ps, limit)

(***************************************************************************)
(* ArxivAnalysisAgent.run and the tables it reads and writes               *)
(***************************************************************************)
\* The calendar date of a clock tick (datetime.now() at that tick).
TickDate(t) ==
    IF t = 1 THEN DateTime(2024, 12, 28)
    ELSE IF t = 2 THEN DateTime(2024, 12, 30)
    ELSE DateTime(2025, 1, t)

\* RawRepository.save_raw_paper at time `now`: INSERT OR REPLACE under
\* UNIQUE(source, source_paper_id) with retrieved_at = now; a replaced row
\* is deleted and the new row goes to the end of the table.
upsert_raw_paper(rows, record, now) ==
    LET Other(r) == ~(r.source = record.source
                      /\ r.source_paper_id = record.source_paper_id)
    IN  Append(SelectSeq2(rows, Other), [record EXCEPT !.retrieved_at = now])

\* RawRepository.get_raw_papers_by_source(source), no limit
get_raw_papers_by_source(rows, source) ==
    LET FromSource(r) == r.source = source
    IN  SelectSeq2(rows, FromSource)

\* AnalysisRepository.get_max_retrieved_at: MAX(retrieved_at), 0 for NULL
get_max_retrieved_at(rows) ==
    IF rows = << >> THEN 0
    ELSE CHOOSE m \in { rows[i].retrieved_at : i \in 1..Len(rows) } :
            \A i \in 1..Len(rows) : rows[i].retrieved_at <= m

\* AnalysisRepository.get_meta(key): the value, 0 for None
get_meta(meta, key) ==
    IF \E r \in meta : r.key = key THEN (CHOOSE r \in meta : r.key = key).value ELSE 0

\* AnalysisRepository.set_meta(key, value): INSERT OR REPLACE on the key
set_meta(meta, key, value) ==
    { r \in meta : r.key # key } \cup { [key |-> key, value |-> value] }

\* The meta keys f"arxiv_last_retrieved_{category}_{granularity}" and
\* f"arxiv_last_run_{category}_{granularity}"
last_retrieved_key(category, granularity) ==
    "arxiv_last_retrieved_" \o category \o "_" \o granularity
last_run_key(category, granularity) ==
    "arxiv_last_run_" \o category \o "_" \o granularity

\* a run that never skips
_should_run_always(meta, rows, granularity, category) == TRUE

\* ArxivAnalysisAgent._should_run
_should_run(meta, rows, granularity, category) ==
    LET last_retrieved == get_meta(meta, last_retrieved_key(category, granularity))
        current_max == get_max_retrieved_at(rows)
    IN  IF last_retrieved = 0 THEN TRUE
        ELSE IF current_max = 0 THEN FALSE
        ELSE current_max > last_retrieved

\* ArxivAnalysisAgent._update_meta at time `now`
_update_meta(meta, rows, granularity, category, now) ==
    LET current_max == get_max_retrieved_at(rows)
        marked == IF current_max # 0
                  THEN set_meta(meta, last_retrieved_key(category, granularity), current_max)
                  ELSE meta
    IN  set_meta(marked, last_run_key(category, granularity), now)

\* ArxivAnalysisAgent._get_arxiv_papers: RawPaper has no published_at
\* attribute, so getattr(paper, 'published_at', None) is None.
_get_arxiv_papers(rows, category) ==
    LET InCategory(r) ==
            category = "ALL"
            \/ Contains(IF Given(r.categories) THEN r.categories ELSE "", category)
        chosen == SelectSeq2(get_raw_papers_by_source(rows, "arxiv"), InCategory)
    IN  [i \in 1..Len(chosen) |->
            [title |-> chosen[i].title, year |-> chosen[i].year,
             categories |-> chosen[i].categories,
             published_at |-> NoDate,
             retrieved_at |-> TickDate(chosen[i].retrieved_at)]]

\* The rows ArxivAnalysisAgent.run builds from the buckets, lines 91-103.
timeseries_data(category, granularity, buckets, keywords_from_yake) ==
    [b \in 1..Len(buckets) |->
        [category |-> category, granularity |-> granularity,
         bucket |-> buckets[b].bucket,
         paper_count |-> Len(buckets[b].papers),
         top_keywords |-> _extract_bucket_keywords(buckets[b].papers, 10,
                                                   keywords_from_yake)]]

\* The key under which INSERT OR REPLACE replaces a row of
\* analysis_arxiv_timeseries.
timeseries_key(row) == << row.category, row.granularity, row.bucket >>

\* AnalysisRepository.save_arxiv_timeseries_batch(data)
save_arxiv_timeseries_batch(table, data) ==
    LET f[i \in 0..Len(data)] ==
            IF i = 0 THEN table
            ELSE { r \in f[i-1] : timeseries_key(r) # timeseries_key(data[i]) }
                 \cup { data[i] }
    IN  f[Len(data)]

\* AnalysisRepository.get_arxiv_timeseries(category, granularity), the
\* rows ORDER BY bucket being left as a set here.
get_arxiv_timeseries(table, category, granularity) ==
    { r \in table : r.category = category /\ r.granularity = granularity }

\* ArxivAnalysisAgent.run(granularity, category, force) at time `now`: the
\* returned dict, the two tables after the call, and the papers read and
\* the rows handed to save_arxiv_timeseries_batch on the way.
run_save(table, meta, rows, granularity, category, now, ps, buckets, data) ==
    [result |-> [status |-> "completed", granularity |-> granularity,
                 category |-> category, paper_count |-> Len(ps),
                 buckets |-> Len(buckets)],
     timeseries |-> save_arxiv_timeseries_batch(table, data),
     meta |-> _update_meta(meta, rows, granularity, category, now),
     papers |-> ps, data |-> data]

run_group(table, meta, rows, granularity, category, now, ps, buckets, keywords_from_yake) ==
    run_save(table, meta, rows, granularity, category, now, ps, buckets,
             timeseries_data(category, granularity, buckets, keywords_from_yake))

run_on_papers(table, meta, rows, granularity, category, now, ps, keywords_from_yake) ==
    IF ps = << >>
    THEN [result |-> [status |-> "completed", paper_count |-> 0, buckets |-> 0],
          timeseries |-> table, meta |-> meta, papers |-> ps, data |-> << >>]
    ELSE run_group(table, meta, rows, granularity, category, now, ps,
                   group_papers(granularity, ps), keywords_from_yake)

run(table, meta, rows, granularity, category, force, now, keywords_from_yake) ==
    IF ~force /\ ~_should_run(meta, rows, granularity, category)
    THEN [result |-> [status |-> "skipped", reason |-> "no_new_data"],
          timeseries |-> table, meta |-> meta, papers |-> << >>, data |-> << >>]
    ELSE run_on_papers(table, meta, rows, granularity, category, now,
                       _get_arxiv_papers(rows, category), keywords_from_yake)

(***************************************************************************)
(* Specification of ingestion and trend runs                               *)
(***************************************************************************)
MaxTick == 2     \* ingestions in a behaviour

TrendRecords ==
    { [source |-> "arxiv", source_paper_id |-> "a1", title |-> "Graph nets",
       year |-> 2024, categories |-> "cs.LG", retrieved_at |-> 0],
      [source |-> "arxiv", source_paper_id |-> "a1", title |-> "Graph nets",
       year |-> 2024, categories |-> "cs.CV", retrieved_at |-> 0],
      [source |-> "arxiv", source_paper_id |-> "a2", title |-> "Deep graph nets",
       year |-> NoYear, categories |-> "cs.LG cs.CL", retrieved_at |-> 0] }

\* The (granularity, category) pairs that are run.
TrendPairs == { <<"year", "ALL">>, <<"month", "cs.LG">>, <<"week", "ALL">>,
                <<"day", "cs.LG">> }
\* yake is an optional package: without it the YAKE strategy yields nothing.
NoYake == << >>

InitTrend ==
    /\ raw_papers = << >> /\ papers = << >> /\ paper_sources = << >>
    /\ venues = << >> /\ venue_cache = EmptyCache /\ last_stats = NoStats
    /\ CurateIdle /\ VenueIdle /\ TrendIdle

\* A scraper stores a raw record: a new one, or one stored before.
Ingest(record) ==
    /\ clock <= MaxTick
    /\ raw_papers' = upsert_raw_paper(raw_papers, record, clock)
    /\ clock' = clock + 1
    /\ UNCHANGED << papers, paper_sources, venues, venue_cache, last_stats >>
    /\ UNCHANGED << arxiv_timeseries, analysis_meta, arxiv_emerging, trend_result >>
    /\ UNCHANGED curateVars /\ UNCHANGED venueVars

\* ArxivAnalysisAgent.run(granularity, category, force)
Run(granularity, category, force, keywords_from_yake) ==
    /\ \E r \in { run(arxiv_timeseries, analysis_meta, raw_papers, granularity,
                      category, force, clock, keywords_from_yake) } :
          /\ arxiv_timeseries' = r.timeseries
          /\ analysis_meta' = r.meta
          /\ trend_result' = [called |-> TRUE, op |-> "run",
                              granularity |-> granularity, category |-> category,
                              force |-> force, result |-> r.result,
                              papers |-> r.papers, data |-> r.data]
    /\ UNCHANGED << clock, arxiv_emerging >>
    /\ UNCHANGED linkVars /\ UNCHANGED curateVars /\ UNCHANGED venueVars

NextTrend ==
    \/ \E record \in TrendRecords : Ingest(record)
    \/ \E pair \in TrendPairs, force \in BOOLEAN :
          Run(pair[1], pair[2], force, NoYake)

SpecTrend == InitTrend /\ [][NextTrend]_vars

(***************************************************************************)
(* Properties of bucketing                                                 *)
(***************************************************************************)
\* A date field that holds a date: a datetime, or a string that parses.
UsableDate(f) ==
    f.kind = "datetime" \/ (f.kind = "str" /\ f.text # "" /\ fromisoformat(f.text) # NoDate)
DateOf(f) == IF f.kind = "str" THEN fromisoformat(f.text) ELSE f

HasUsableDate(p) == UsableDate(p.published_at) \/ UsableDate(p.retrieved_at)

\* The publication date when the paper has one, else the ingestion
\* timestamp.
ClaimedDate(p) ==
    IF UsableDate(p.published_at) THEN DateOf(p.published_at) ELSE DateOf(p.retrieved_at)

\* The bucket key the date gives for a granularity.
ClaimedKey(granularity, p) ==
    LET dt == ClaimedDate(p)
    IN  IF granularity = "year" THEN Pad(dt.y, 4)
        ELSE IF granularity = "month" THEN Pad(dt.y, 4) \o "-" \o Pad(dt.m, 2)
        ELSE IF granularity = "week"
        THEN Pad(isocalendar(dt).year, 4) \o "-W" \o Pad(isocalendar(dt).week, 2)
        ELSE Pad(dt.y, 4) \o "-" \o Pad(dt.m, 2) \o "-" \o Pad(dt.d, 2)

SumCounts(data) ==
    LET f[i \in 0..Len(data)] == IF i = 0 THEN 0 ELSE f[i-1] + data[i].paper_count
    IN  f[Len(data)]

\* The last call was a run that computed buckets.
RunComputed ==
    /\ trend_result.called /\ trend_result.op = "run"
    /\ trend_result.result.status = "completed"
    /\ trend_result.papers # << >>

\* C12 as claimed: a run places every paper that has a usable date in
\* exactly one bucket, the paperCounts add up to the number of such papers,
\* and for month, week and day the bucket of a paper is the one its
\* publication date, or else its ingestion timestamp, gives.
C12_BucketPlacement ==
    RunComputed =>
        LET ps == trend_result.papers
            data == trend_result.data
            g == trend_result.granularity
            dated == { i \in 1..Len(ps) : HasUsableDate(ps[i]) }
        IN  /\ SumCounts(data) = Cardinality(dated)
            /\ \A a, b \in 1..Len(data) : data[a].bucket = data[b].bucket => a = b
            /\ g # "year" =>
                 \A i \in dated :
                    \E b \in 1..Len(data) :
                       /\ data[b].bucket = ClaimedKey(g, ps[i])
                       /\ data[b].paper_count =
                            Cardinality({ j \in dated :
                                            ClaimedKey(g, ps[j]) = ClaimedKey(g, ps[i]) })

(***************************************************************************)
(* Properties of incremental trend runs                                    *)
(***************************************************************************)
\* The watermark stored for the pair is not older than the newest ingestion.
WatermarkCurrent(granularity, category) ==
    /\ get_meta(analysis_meta, last_retrieved_key(category, granularity)) # 0
    /\ get_max_retrieved_at(raw_papers)
          <= get_meta(analysis_meta, last_retrieved_key(category, granularity))

\* No run of the pair is recorded, or a raw record was ingested after it.
IngestedAfterLastRun(granularity, category) ==
    \/ get_meta(analysis_meta, last_run_key(category, granularity)) = 0
    \/ \E i \in 1..Len(raw_papers) :
          raw_papers[i].retrieved_at
             >= get_meta(analysis_meta, last_run_key(category, granularity))

RunStep(granularity, category, force) ==
    /\ (~force /\ WatermarkCurrent(granularity, category)) =>
           /\ trend_result'.result.status = "skipped"
           /\ arxiv_timeseries' = arxiv_timeseries
           /\ analysis_meta' = analysis_meta
    /\ IngestedAfterLastRun(granularity, category) =>
           trend_result'.result.status = "completed"
    /\ force => trend_result'.result.status = "completed"

\* The decision of _should_run in the current state, for every pair.
SkipDecision ==
    \A pair \in TrendPairs :
        /\ WatermarkCurrent(pair[1], pair[2])
              => ~_should_run(analysis_meta, raw_papers, pair[1], pair[2])
        /\ IngestedAfterLastRun(pair[1], pair[2])
              => _should_run(analysis_meta, raw_papers, pair[1], pair[2])

\* C16: a run that is not forced is skipped, and writes no bucket and no
\* meta entry, whenever the watermark stored for its (category, granularity)
\* is not older than the newest ingestion timestamp; it recomputes whenever
\* a raw record was ingested after the last run of the pair; a forced run
\* always recomputes.  A step that leaves the clock alone and changes the
\* state is a run, and trend_result' names its arguments.
C16_IncrementalSkip ==
    /\ []SkipDecision
    /\ [][(clock' = clock /\ trend_result'.called)
            => RunStep(trend_result'.granularity, trend_result'.category,
                       trend_result'.force)]_vars

\* a run was skipped although raw records are stored, and a bucket table
\* written by an earlier run is there
C16_SkippedRun ==
    /\ trend_result.called /\ trend_result.op = "run"
    /\ ~trend_result.force
    /\ trend_result.result.status = "skipped"
    /\ WatermarkCurrent(trend_result.granularity, trend_result.category)
    /\ arxiv_timeseries # {}

\* The (bucket, paperCount) pairs of a set or sequence of bucket rows.
StoredCounts(rows_of_pair) == { << r.bucket, r.paper_count >> : r \in rows_of_pair }
ScratchCounts(buckets) ==
    { << buckets[b].bucket, Len(buckets[b].papers) >> : b \in 1..Len(buckets) }

\* C17 as claimed: once a run of a (category, granularity) pair has
\* completed, the bucket rows stored for the pair are those a computation
\* from scratch over the raw data the run read produces: the same bucket
\* keys with the same paperCount, and no other row.
C17_RowsEqualFromScratch ==
    (/\ trend_result.called /\ trend_result.op = "run"
     /\ trend_result.result.status = "completed")
    => StoredCounts(get_arxiv_timeseries(arxiv_timeseries, trend_result.category,
                                         trend_result.granularity))
         = ScratchCounts(group_papers(trend_result.granularity, trend_result.papers))

(***************************************************************************)
(* Emerging topics: src/analysis/arxiv_agent.py, detect_emerging_topics    *)
(***************************************************************************)
\* Python compares str by code point; the characters of bucket keys in
\* code point order.
BucketChars == "-0123456789W"
CodeRank(c) == CHOOSE i \in 1..Len(BucketChars) : Ch(BucketChars, i) = c

\* a < b for two str of bucket characters
StrLess(a, b) ==
    \E i \in 1..Len(b) :
        /\ \A j \in 1..(i - 1) : j <= Len(a) /\ Ch(a, j) = Ch(b, j)
        /\ \/ i = Len(a) + 1
           \/ i <= Len(a) /\ CodeRank(Ch(a, i)) < CodeRank(Ch(b, i))

\* sorted(timeseries, key=lambda x: x["bucket"]) of the rows of one scope,
\* whose bucket keys are distinct
sorted_by_bucket(rowset) ==
    [i \in 1..Cardinality(rowset) |->
        CHOOSE r \in rowset :
            Cardinality({ x \in rowset : StrLess(x.bucket, r.bucket) }) = i - 1]

\* The (bucket, keyword, count) listings of a sorted series, in the order
\* the two loops of lines 491-497 visit them; `if keyword:` drops "".
listings(timeseries) ==
    LET f[i \in 0..Len(timeseries)] ==
            IF i = 0 THEN << >>
            ELSE LET prev == f[i-1]
                     kws == timeseries[i].top_keywords
                 IN  prev \o SelectSeq([k \in 1..Len(kws) |->
                                          [bucket |-> timeseries[i].bucket,
                                           keyword |-> kws[k].keyword,
                                           count |-> kws[k].count]],
                                       LAMBDA e : e.keyword # "" /\ e.keyword # Null)
    IN  f[Len(timeseries)]

\* keyword_timeseries.keys(): the keywords in order of first listing
keyword_order(ls) ==
    LET f[i \in 0..Len(ls)] ==
            IF i = 0 THEN << >>
            ELSE LET prev == f[i-1]
                 IN  IF \E k \in 1..Len(prev) : prev[k] = ls[i].keyword
                     THEN prev ELSE Append(prev, ls[i].keyword)
    IN  f[Len(ls)]

\* keyword_timeseries[keyword]: the (bucket, count) data points of a keyword
data_points_of(ls, keyword) == SelectSeq(ls, LAMBDA e : e.keyword = keyword)

SumOfCounts(points) ==
    LET f[i \in 0..Len(points)] == IF i = 0 THEN 0 ELSE f[i-1] + points[i].count
    IN  f[Len(points)]

\* data_points[-n:] and data_points[-2n:-n] of a list of at least n, and of
\* at least 2n, points
LastPoints(points, n) == SubSeq(points, Len(points) - n + 1, Len(points))
PrecedingPoints(points, n) == SubSeq(points, Len(points) - 2 * n + 1, Len(points) - n)

\* Numbers are exact fractions num/den with den > 0.
Frac(num, den) == [num |-> num, den |-> den]
FracGeq(a, b) == a.num * b.den >= b.num * a.den
FracLeq(a, b) == a.num * b.den <= b.num * a.den
FracDiv(a, b) == Frac(a.num * b.den, a.den * b.num)

DefaultThreshold == Frac(3, 2)      \* threshold: float = 1.5
DecliningBound == Frac(7, 10)       \* growth_rate <= 0.7
NearZeroAverage == Frac(1, 10)      \* historical_avg = 0.1

\* round(growth_rate, 2) in hundredths: the nearest hundredth, an exact
\* tie going to the even one.
round2(x) ==
    LET q == 100 * x.num
        lo == q \div x.den
        twice == 2 * (q % x.den)
    IN  IF twice < x.den THEN lo
        ELSE IF twice > x.den THEN lo + 1
        ELSE IF lo % 2 = 0 THEN lo ELSE lo + 1

\* a label that takes the threshold as an excluded bound
trend_label_strict(growth_rate, threshold) ==
    IF FracGeq(growth_rate, threshold) /\ ~FracLeq(growth_rate, threshold) THEN "rising"
    ELSE IF FracLeq(growth_rate, DecliningBound) THEN "declining"
    ELSE "stable"

\* lines 527-533: the trend of a growth rate
trend_label(growth_rate, threshold) ==
    IF FracGeq(growth_rate, threshold) THEN "rising"
    ELSE IF FracLeq(growth_rate, DecliningBound) THEN "declining"
    ELSE "stable"

\* lines 508-525: the averages and the growth rate of a keyword with at
\* least recent_window data points
keyword_growth(points, recent_window) ==
    LET recent_avg == Frac(SumOfCounts(LastPoints(points, recent_window)), recent_window)
        historical_avg ==
            IF Len(points) >= recent_window * 2
            THEN Frac(SumOfCounts(PrecedingPoints(points, recent_window)), recent_window)
            ELSE NearZeroAverage
    IN  [recent_avg |-> recent_avg, historical_avg |-> historical_avg,
         growth_rate |-> IF historical_avg.num > 0
                         THEN FracDiv(recent_avg, historical_avg)
                         ELSE Frac(recent_avg.num * 10, recent_avg.den)]

\* lines 503-546 for one keyword: what the loop computes for it
analyse_keyword(category, keyword, points, threshold, recent_window) ==
    LET g == keyword_growth(points, recent_window)
    IN  [category |-> category, keyword |-> keyword,
         recent_avg |-> g.recent_avg, historical_avg |-> g.historical_avg,
         growth |-> g.growth_rate,
         growth_rate |-> round2(g.growth_rate),
         first_seen |-> points[1].bucket,
         recent_count |-> g.recent_avg.num \div g.recent_avg.den,
         trend |-> trend_label(g.growth_rate, threshold)]

\* lines 500-546: the keywords that are analysed, in dict order
analysed_keywords(category, ls, threshold, recent_window) ==
    LET kws == SelectSeq(keyword_order(ls),
                         LAMBDA k : Len(data_points_of(ls, k)) >= recent_window)
    IN  [i \in 1..Len(kws) |->
            analyse_keyword(category, kws[i], data_points_of(ls, kws[i]),
                            threshold, recent_window)]

\* The dict appended to emerging_topics, lines 539-546.
topic_of(a) ==
    [category |-> a.category, keyword |-> a.keyword, growth_rate |-> a.growth_rate,
     first_seen |-> a.first_seen, recent_count |-> a.recent_count, trend |-> a.trend]

\* sorted(emerging_topics, key=growth_rate, reverse=True): a stable sort
sorted_by_growth_desc(topics) ==
    LET n == Len(topics)
        Rank(i) == Cardinality({ j \in 1..n :
                       \/ topics[j].growth_rate > topics[i].growth_rate
                       \/ topics[j].growth_rate = topics[i].growth_rate /\ j < i })
    IN  [p \in 1..n |-> topics[CHOOSE i \in 1..n : Rank(i) = p - 1]]

\* The key under which INSERT OR REPLACE replaces a row of
\* analysis_arxiv_emerging.
emerging_key(row) == << row.category, row.keyword >>

\* AnalysisRepository.save_emerging_topics_batch(topics) at time `now`
save_emerging_topics_batch(table, topics, now) ==
    LET stored(t) == [category |-> t.category, keyword |-> PyLower(t.keyword),
                      growth_rate |-> t.growth_rate, first_seen |-> t.first_seen,
                      recent_count |-> t.recent_count, trend |-> t.trend,
                      updated_at |-> now]
        f[i \in 0..Len(topics)] ==
            IF i = 0 THEN table
            ELSE LET prev == f[i-1]
                 IN  { r \in prev : emerging_key(r) # emerging_key(stored(topics[i])) }
                     \cup { stored(topics[i]) }
    IN  f[Len(topics)]

\* ArxivAnalysisAgent.detect_emerging_topics(category, threshold,
\* recent_window) at time `now`: the returned list, the emerging table after
\* the call, the weekly series read and what the loop computed for every
\* keyword it analysed.
detect_on(table, now, timeseries, analysed, rising) ==
    [returned |-> sorted_by_growth_desc([i \in 1..Len(rising) |-> topic_of(rising[i])]),
     emerging |-> IF rising # << >>
                  THEN save_emerging_topics_batch(
                          table,
                          sorted_by_growth_desc([i \in 1..Len(rising) |-> topic_of(rising[i])]),
                          now)
                  ELSE table,
     timeseries |-> timeseries,
     analysed |-> analysed]

detect_sorted(table, category, threshold, recent_window, now, timeseries, analysed) ==
    detect_on(table, now, timeseries, analysed,
              SelectSeq(analysed, LAMBDA a : a.trend = "rising"))

detect_read(table, category, threshold, recent_window, now, timeseries) ==
    IF Len(timeseries) < recent_window * 2
    THEN [returned |-> << >>, emerging |-> table, timeseries |-> timeseries,
          analysed |-> << >>]
    ELSE detect_sorted(table, category, threshold, recent_window, now, timeseries,
                       analysed_keywords(category, listings(timeseries),
                                         threshold, recent_window))

detect_emerging_topics(timeseries_table, table, category, threshold, recent_window, now) ==
    detect_read(table, category, threshold, recent_window, now,
                sorted_by_bucket(get_arxiv_timeseries(timeseries_table, category, "week")))

(***************************************************************************)
(* Specification of emerging-topic detection                               *)
(***************************************************************************)
WeekKey(w) == "2024-W" \o Pad(w, 2)

\* The top_keywords of a weekly bucket in which two keywords were counted
\* a and b times, most frequent first, a keyword counted 0 times not listed.
TopKeywords(kw_a, a, kw_b, b) ==
    LET la == IF a > 0 THEN << [keyword |-> kw_a, count |-> a] >> ELSE << >>
        lb == IF b > 0 THEN << [keyword |-> kw_b, count |-> b] >> ELSE << >>
    IN  IF a >= b THEN la \o lb ELSE lb \o la

WeekRow(category, w, top_keywords) ==
    [category |-> category, granularity |-> "week", bucket |-> WeekKey(w),
     paper_count |-> 9, top_keywords |-> top_keywords]

\* The weekly rows of a scope for two keywords with the given weekly counts.
WeeklySeries(category, kw_a, counts_a, kw_b, counts_b) ==
    { WeekRow(category, w, TopKeywords(kw_a, counts_a[w], kw_b, counts_b[w])) :
        w \in 1..Len(counts_a) }

\* weekly counts of "graph" and of "nets" over four weeks
GraphCounts == { <<1, 1, 3, 3>>, <<1, 1, 1, 2>>, <<3, 3, 1, 1>>, <<3, 1, 1, 3>>,
                 <<1, 1, 0, 0>>, <<0, 0, 1, 3>>, <<0, 1, 0, 3>>, <<0, 0, 0, 3>>,
                 <<3, 0, 1, 1>>, <<1, 3, 3, 1>> }
NetsCounts == { <<1, 1, 2, 2>>, <<2, 2, 1, 1>>, <<2, 2, 3, 3>> }
ExampleCounts == <<1, 1, 2, 2, 6, 7, 8, 9>>
NoCounts == <<0, 0, 0, 0, 0, 0, 0, 0>>

Scopes == { "cs.LG", "ALL" }
Thresholds == { DefaultThreshold, Frac(3, 1) }
RecentWindows == { 2, 4 }
MaxSaves == 1     \* rows saved in a behaviour
\* rows written later: week 5 of the scope
LaterRows == { WeekRow("cs.LG", 5, << >>),
               WeekRow("cs.LG", 5, << [keyword |-> "graph", count |-> 1] >>) }

InitEmerging ==
    /\ raw_papers = << >> /\ papers = << >> /\ paper_sources = << >>
    /\ venues = << >> /\ venue_cache = EmptyCache /\ last_stats = NoStats
    /\ CurateIdle /\ VenueIdle
    /\ clock = 1 /\ analysis_meta = {} /\ arxiv_emerging = {}
    /\ trend_result = NotCalled
    /\ \/ \E a \in GraphCounts, b \in NetsCounts :
             arxiv_timeseries = WeeklySeries("cs.LG", "graph", a, "nets", b)
       \/ arxiv_timeseries =
             WeeklySeries("cs.LG", "retrieval augmented", ExampleCounts, "nets", NoCounts)

\* AnalysisRepository.save_arxiv_timeseries(category, granularity, bucket,
\* paper_count, top_keywords)
SaveArxivTimeseries(row) ==
    /\ clock <= MaxSaves
    /\ arxiv_timeseries' = save_arxiv_timeseries_batch(arxiv_timeseries, << row >>)
    /\ clock' = clock + 1
    /\ UNCHANGED << analysis_meta, arxiv_emerging, trend_result >>
    /\ UNCHANGED linkVars /\ UNCHANGED curateVars /\ UNCHANGED venueVars

\* ArxivAnalysisAgent.detect_emerging_topics(category, threshold, recent_window)
DetectEmergingTopics(category, threshold, recent_window) ==
    /\ \E r \in { detect_emerging_topics(arxiv_timeseries, arxiv_emerging, category,
                                         threshold, recent_window, clock) } :
          /\ arxiv_emerging' = r.emerging
          /\ trend_result' = [called |-> TRUE, op |-> "detect", category |-> category,
                              threshold |-> threshold, recent_window |-> recent_window,
                              returned |-> r.returned, timeseries |-> r.timeseries,
                              analysed |-> r.analysed]
    /\ UNCHANGED << clock, arxiv_timeseries, analysis_meta >>
    /\ UNCHANGED linkVars /\ UNCHANGED curateVars /\ UNCHANGED venueVars

NextEmerging ==
    \/ \E row \in LaterRows : SaveArxivTimeseries(row)
    \/ \E category \in Scopes, threshold \in Thresholds, recent_window \in RecentWindows :
          DetectEmergingTopics(category, threshold, recent_window)

SpecEmerging == InitEmerging /\ [][NextEmerging]_vars

(***************************************************************************)
(* Properties of emerging-topic detection                                  *)
(***************************************************************************)
\* The last call was a detection that analysed keywords.
Detected == trend_result.called /\ trend_result.op = "detect"

\* recent_avg / historical_avg >= bound, and <= bound, for averages that
\* are fractions with positive denominators
RatioGeq(recent_avg, historical_avg, bound) ==
    recent_avg.num * historical_avg.den * bound.den
        >= bound.num * recent_avg.den * historical_avg.num
RatioLeq(recent_avg, historical_avg, bound) ==
    recent_avg.num * historical_avg.den * bound.den
        <= bound.num * recent_avg.den * historical_avg.num

\* C13: a keyword is labelled rising when recentAvg / historicalAvg >=
\* threshold, declining when the ratio is <= 0.7, stable otherwise; the
\* returned list holds exactly the keywords labelled rising, in
\* non-increasing order of growth rate; the weekly counts 1,1,2,2 then
\* 6,7,8,9 give growth rate 5.0 and the keyword is returned as rising.
C13_RisingReturned ==
    Detected =>
        LET an == trend_result.analysed
            ret == trend_result.returned
            thr == trend_result.threshold
        IN  /\ \A i \in 1..Len(an) :
                  /\ an[i].trend = "rising"
                       <=> RatioGeq(an[i].recent_avg, an[i].historical_avg, thr)
                  /\ an[i].trend = "declining"
                       <=> /\ ~RatioGeq(an[i].recent_avg, an[i].historical_avg, thr)
                           /\ RatioLeq(an[i].recent_avg, an[i].historical_avg,
                                       DecliningBound)
                  /\ an[i].trend \in { "rising", "declining", "stable" }
            /\ Len(ret) = Cardinality({ i \in 1..Len(an) : an[i].trend = "rising" })
            /\ \A i \in 1..Len(an) :
                  an[i].trend = "rising"
                     <=> \E k \in 1..Len(ret) :
                            /\ ret[k].keyword = an[i].keyword
                            /\ ret[k].growth_rate = an[i].growth_rate
                            /\ ret[k].trend = "rising"
            /\ \A j, k \in 1..Len(ret) :
                  j < k => ret[j].growth_rate >= ret[k].growth_rate
            /\ \A i \in 1..Len(an) :
                  (/\ an[i].recent_avg = Frac(30, 4)
                   /\ an[i].historical_avg = Frac(6, 4)
                   /\ thr = DefaultThreshold)
                  => \E k \in 1..Len(ret) :
                        /\ ret[k].keyword = an[i].keyword
                        /\ ret[k].growth_rate = 500

\* two keywords were returned, and sorting changed their order
C13_TwoRisingSorted ==
    /\ Detected
    /\ Len(trend_result.returned) = 2
    /\ Len(trend_result.analysed) = 2
    /\ trend_result.analysed[1].growth_rate < trend_result.analysed[2].growth_rate

\* the example series was analysed with the default window and threshold
C13_ExampleAnalysed ==
    /\ Detected
    /\ trend_result.recent_window = 4 /\ trend_result.threshold = DefaultThreshold
    /\ \E i \in 1..Len(trend_result.analysed) :
          /\ trend_result.analysed[i].keyword = "retrieval augmented"
          /\ trend_result.analysed[i].recent_avg = Frac(30, 4)
          /\ trend_result.analysed[i].historical_avg = Frac(6, 4)

\* The count of a keyword in bucket i of a series, zero when not listed.
CountIn(timeseries, i, keyword) ==
    LET kws == timeseries[i].top_keywords
    IN  IF \E k \in 1..Len(kws) : kws[k].keyword = keyword
        THEN kws[CHOOSE k \in 1..Len(kws) : kws[k].keyword = keyword].count
        ELSE 0

WindowSum(timeseries, from, to, keyword) ==
    LET f[i \in (from - 1)..to] ==
            IF i = from - 1 THEN 0 ELSE f[i-1] + CountIn(timeseries, i, keyword)
    IN  f[to]

FracEq(a, b) == a.num * b.den = b.num * a.den

\* C14 as claimed: for every keyword analysed, recentAvg is the mean of its
\* counts over the last N buckets of the scope's series and historicalAvg
\* the mean over the N buckets before those, a bucket that does not list
\* the keyword counting zero (a historical mean of zero may be replaced by
\* the near-zero stand-in).
C14_ScopeWindows ==
    Detected =>
        LET an == trend_result.analysed
            ts == trend_result.timeseries
            n == trend_result.recent_window
            len == Len(trend_result.timeseries)
        IN  \A i \in 1..Len(an) :
               /\ FracEq(an[i].recent_avg,
                         Frac(WindowSum(ts, len - n + 1, len, an[i].keyword), n))
               /\ \/ FracEq(an[i].historical_avg,
                            Frac(WindowSum(ts, len - 2 * n + 1, len - n, an[i].keyword), n))
                  \/ /\ WindowSum(ts, len - 2 * n + 1, len - n, an[i].keyword) = 0
                     /\ an[i].historical_avg = NearZeroAverage

\* The stored record without its timestamp.
StoredTopic(r) ==
    [category |-> r.category, keyword |-> r.keyword, growth_rate |-> r.growth_rate,
     first_seen |-> r.first_seen, recent_count |-> r.recent_count, trend |-> r.trend]

\* C15 as claimed: after a detection for a scope the records stored for the
\* scope are exactly the records that detection returned (keywords in lower
\* case), also when it returned nothing.
C15_StoredEqualReturned ==
    Detected =>
        { StoredTopic(r) : r \in { x \in arxiv_emerging :
                                      x.category = trend_result.category } }
          = { [trend_result.returned[k] EXCEPT !.keyword = PyLower(@)] :
                 k \in 1..Len(trend_result.returned) }

(***************************************************************************)
(* The legacy save with keywords: DatabaseRepository.save_paper            *)
(***************************************************************************)
\* AnalysisRepository.save_keyword(paper_id, keyword, method), score = 1.0
save_keyword(rows, next_id, paper_id, keyword, method) ==
    save_paper_keyword(rows, next_id,
                       [paper_id |-> paper_id, keyword |-> keyword,
                        method |-> method, score |-> 1])

\* for kw in keywords: save_keyword(paper_id, kw, method)
save_keywords_of(rows, next_id, paper_id, keywords, method) ==
    LET f[i \in 0..Len(keywords)] ==
            IF i = 0 THEN rows
            ELSE LET prev == f[i-1]
                 IN  save_keyword(prev, next_id + i - 1, paper_id, keywords[i], method)
    IN  f[Len(keywords)]

\* DatabaseRepository.save_paper(p): the venue looked up or saved, the
\* paper row inserted, the author keywords and the extracted keywords saved
\* under the new paper_id; True is returned.
legacy_save_keywords(saved, rows, next_id, p) ==
    [papers |-> saved.papers, venues |-> saved.venues,
     paper_keywords |->
        save_keywords_of(save_keywords_of(rows, next_id, Len(saved.papers),
                                          p.keywords, "author"),
                         next_id + Len(p.keywords), Len(saved.papers),
                         p.extracted_keywords, "extracted"),
     next_kw_id |-> next_id + Len(p.keywords) + Len(p.extracted_keywords),
     result |-> TRUE]

legacy_save_paper(ps, vs, rows, next_id, p) ==
    legacy_save_keywords(compat_save_paper(ps, vs, p), rows, next_id, p)

(***************************************************************************)
(* Specification of repeated legacy saves                                  *)
(***************************************************************************)
MaxSavedPapers == 3     \* papers table size up to which a save runs

SamplePapers ==
    { [canonical_title |-> t, year |-> 2024, venue_name |-> "ICLR",
       venue_type |-> "unknown", domain |-> Null, quality_flag |-> "unknown",
       keywords |-> << "test" >>, extracted_keywords |-> e] :
         t \in { "Test Paper", "Other Paper" },
         e \in { << >>, << "keyword1" >>, << "keyword2" >>, << "LLMs" >> } }

InitLegacy ==
    /\ raw_papers = << >> /\ papers = << >> /\ paper_sources = << >>
    /\ venues = << >> /\ venue_cache = EmptyCache /\ last_stats = NoStats
    /\ CurateIdle /\ VenueIdle /\ TrendIdle

\* repo.save_paper(p), p a Paper saved before or not
LegacySavePaper(p) ==
    /\ Len(papers) < MaxSavedPapers
    /\ \E r \in { legacy_save_paper(papers, venues, paper_keywords, next_kw_id, p) } :
          /\ papers' = r.papers
          /\ venues' = r.venues
          /\ paper_keywords' = r.paper_keywords
          /\ next_kw_id' = r.next_kw_id
    /\ UNCHANGED << raw_papers, paper_sources, venue_cache, last_stats >>
    /\ UNCHANGED << cands, paper, out, runs, rows_after >>
    /\ UNCHANGED venueVars /\ UNCHANGED trendVars

NextLegacy == \E p \in SamplePapers : LegacySavePaper(p)

SpecLegacy == InitLegacy /\ [][NextLegacy]_vars

LinkedOf(fetched, links) ==
    { i \in 1..Len(fetched) : \E l \in 1..Len(links) : links[l].raw_id = fetched[i] }

\* What a batch over the fetched raw_ids must leave, r being what
\* process_batch returned and left.
BatchSummaryOk(fetched, faults, r) ==
    /\ r.stats.processed = Len(fetched)
    /\ r.stats.processed = r.stats.success + r.stats.failed
    /\ r.stats.merged <= r.stats.success
    /\ r.stats.success = Cardinality(LinkedOf(fetched, r.paper_sources))
    /\ \A i \in 1..Len(fetched) :
          (/\ faults[fetched[i]] = "ok"
           /\ _normalize_title(raw_papers[fetched[i]].title) # "")
          => i \in LinkedOf(fetched, r.paper_sources)
    /\ r.stats.failed >=
          Cardinality({ i \in 1..Len(fetched) :
                            _normalize_title(raw_papers[fetched[i]].title) = "" })

\* C19: process_batch (with the default limit) returns a summary whatever a single record does: a
\* record with an empty title and a record whose save or link raises are
\* counted as failed, every other fetched record is processed and linked,
\* processed = success + failed and merged <= success.  The summary of the
\* last batch that ran satisfies the same equations.
C19_BatchSummary ==
    /\ last_stats.processed = last_stats.success + last_stats.failed
    /\ last_stats.merged <= last_stats.success
    /\ \A source \in Sources :
          \E fetched \in { get_unprocessed_raw_papers(raw_papers, paper_sources,
                                                       source, DefaultLimit) } :
             \A faults \in FaultPlans :
                \E r \in { process_batch(raw_papers, papers, paper_sources, venues,
                                          venue_cache, source, DefaultLimit, faults) } :
                   BatchSummaryOk(fetched, faults, r)

\* a batch in which one record failed and another was processed
C19_FailedAndProcessed ==
    /\ last_stats.processed = 2
    /\ last_stats.failed = 1
    /\ last_stats.success = 1
    /\ \E i \in 1..Len(raw_papers) : _normalize_title(raw_papers[i].title) = ""

\* A batch over records of which one or more met the unreachable store.
MetOutage(fetched, faults) == \E i \in 1..Len(fetched) : faults[fetched[i]] = "down"

\* C20 as claimed: when the store becomes unreachable while a batch is in
\* progress, process_batch raises to its caller instead of returning a
\* summary that counts the records as failed.
C20_OutageRaised ==
    \A source \in Sources, limit \in Limits, faults \in OutagePlans :
        \E r \in { process_batch(raw_papers, papers, paper_sources, venues,
                                 venue_cache, source, limit, faults) } :
            MetOutage(get_unprocessed_raw_papers(raw_papers, paper_sources,
                                                 source, limit), faults)
            => r.raised

(***************************************************************************)
(* Properties of stored keywords                                           *)
(***************************************************************************)
\* A keyword is in curated form: lower-case, no leading, trailing or
\* repeated whitespace, and unchanged by normalize followed by the synonym
\* table.
CuratedForm(keyword) ==
    /\ PyLower(keyword) = keyword
    /\ Strip(keyword) = keyword
    /\ CollapseWs(keyword) = keyword
    /\ Normalize(keyword) # Null
    /\ apply_synonym(Normalize(keyword)) = keyword

\* C21 as claimed: every keyword stored in a paper_keywords row, whether
\* AnalysisAgent.run or DatabaseRepository.save_paper wrote it, is in curated
\* form.
C21_StoredCurated ==
    \A i \in 1..Len(paper_keywords) : CuratedForm(paper_keywords[i].keyword)

(***************************************************************************)
(* Properties of pattern anchoring                                         *)
(***************************************************************************)
\* The acronyms under which the pattern tables know a venue, lower-cased.
Acronyms(venue) ==
    IF venue = "NeurIPS" THEN { "neurips", "nips" } ELSE { PyLower(venue) }

\* w stands in t as a token of its own.
AsToken(t, w) ==
    \E i \in 1..Len(t) : At(t, w, i) /\ WordBoundary(t, i) /\ WordBoundary(t, i + Len(w))

\* The text names the venue only inside a longer alphanumeric token: an
\* acronym of the venue occurs in it, none stands as a token of its own.
InsideTokenOnly(field, venue) ==
    LET t == PyLower(field)
    IN  /\ \E w \in Acronyms(venue) : Contains(t, w)
        /\ \A w \in Acronyms(venue) : ~AsToken(t, w)

\* C22 as claimed: no resolver returns a venue for a text that holds the
\* venue's acronym only as a proper part of a longer alphanumeric token,
\* neither StructuringAgent._detect_venue on any of its fields nor the
\* extraction reprocess_arxiv_papers makes from comments and journal_ref.
C22_WordAnchored ==
    /\ detected.called =>
          \A field \in { rec.venue_raw, rec.comments, rec.journal_ref } :
              FieldVenue(field) # Null => ~InsideTokenOnly(field, FieldVenue(field))
    /\ reprocessed.called =>
          \A k \in 1..Len(reprocessed.choices) :
              LET choice == reprocessed.choices[k]
                  field == IF choice.source = "comments"
                           THEN raw_papers[choice.raw_id].comments
                           ELSE raw_papers[choice.raw_id].journal_ref
              IN  choice.venue # Null => ~InsideTokenOnly(field, choice.venue)

(***************************************************************************)
(* ArxivAnalysisAgent: the fallback count of month, week and day grouping  *)
(***************************************************************************)
\* missing_published_count at the end of _group_by_month/_week/_day: one
\* for every paper whose published_at is missing.
missing_published_count_every(ps) == Len(ps)
missing_published_count(ps) ==
    Cardinality({ i \in 1..Len(ps) : ~DateGiven(ps[i].published_at) })

\* The logger.warning of the count, written when it is positive.
fallback_warning(ps) ==
    IF missing_published_count(ps) > 0
    THEN << [missing |-> missing_published_count(ps), total |-> Len(ps)] >>
    ELSE << >>

\* _group_by_month/_week/_day(papers): the buckets, the count and the log.
group_with_fallback(granularity, ps) ==
    [buckets |-> group_papers(granularity, ps),
     missing_published_count |-> missing_published_count(ps),
     warnings |-> fallback_warning(ps)]

MaxGroup == 3     \* papers in one grouping call

\* Paper dicts as the callers of the grouping functions build them: with
\* and without published_at, retrieved_at a datetime or an ISO string.
GroupPapers ==
    { [raw_id |-> 1, year |-> 2024, published_at |-> DateTime(2024, 1, 15),
       retrieved_at |-> DateTime(2024, 2, 1)],
      [raw_id |-> 2, year |-> 2024, published_at |-> NoDate,
       retrieved_at |-> DateTime(2024, 1, 20)],
      [raw_id |-> 3, year |-> 2024, published_at |-> DateTime(2024, 2, 10),
       retrieved_at |-> DateTime(2024, 2, 15)],
      [raw_id |-> 4, year |-> 2024, published_at |-> NoDate,
       retrieved_at |-> DateStr("2024-03-15")] }

\* Lists of distinct papers, at most MaxGroup long.
GroupInputs ==
    UNION { { ps \in [1..n -> GroupPapers] : \A i, j \in 1..n : ps[i] = ps[j] => i = j } :
            n \in 0..MaxGroup }

FallbackGranularities == { "month", "week", "day" }

InitGroup ==
    /\ raw_papers = << >> /\ papers = << >> /\ paper_sources = << >>
    /\ venues = << >> /\ venue_cache = EmptyCache /\ last_stats = NoStats
    /\ CurateIdle /\ VenueIdle /\ TrendIdle

\* agent._group_by_month(ps), _group_by_week(ps) or _group_by_day(ps)
GroupBy(granularity, ps) ==
    /\ \E r \in { group_with_fallback(granularity, ps) } :
          trend_result' = [called |-> TRUE, op |-> "group", granularity |-> granularity,
                           papers |-> ps, buckets |-> r.buckets,
                           missing_published_count |-> r.missing_published_count,
                           warnings |-> r.warnings]
    /\ UNCHANGED << clock, arxiv_timeseries, analysis_meta, arxiv_emerging >>
    /\ UNCHANGED linkVars /\ UNCHANGED curateVars /\ UNCHANGED venueVars

NextGroup == \E granularity \in FallbackGranularities, ps \in GroupInputs : GroupBy(granularity, ps)

SpecGroup == InitGroup /\ [][NextGroup]_vars

\* The bucket key that the retrieved_at of a paper gives.
RetrievedKey(granularity, p) ==
    LET q == [p EXCEPT !.published_at = NoDate]
    IN  IF granularity = "month" THEN month_key(q)
        ELSE IF granularity = "week" THEN week_key(q) ELSE day_key(q)

\* The papers of a grouping that have no published_at and stand in the
\* bucket of their retrieved_at.
PlacedByFallback(granularity, ps, buckets) ==
    { i \in 1..Len(ps) :
        /\ ~DateGiven(ps[i].published_at)
        /\ \E b \in 1..Len(buckets) :
              /\ buckets[b].bucket = RetrievedKey(granularity, ps[i])
              /\ \E k \in 1..Len(buckets[b].papers) : buckets[b].papers[k] = ps[i] }

Grouped == trend_result.called /\ trend_result.op = "group"

\* C23: every month, week or day grouping keeps a fallback count, logged
\* when it is positive, and the count is the number of papers that were
\* placed in a bucket by their retrieved_at for lack of a published_at.
C23_FallbackCount ==
    Grouped =>
        LET n == Cardinality(PlacedByFallback(trend_result.granularity, trend_result.papers,
                                              trend_result.buckets))
        IN  /\ trend_result.missing_published_count = n
            /\ trend_result.warnings =
                  IF n > 0 THEN << [missing |-> n, total |-> Len(trend_result.papers)] >>
                  ELSE << >>

\* A grouping of papers of which one had a published_at and one had not.
C23_MixedGrouping ==
    /\ Grouped
    /\ trend_result.missing_published_count = 1
    /\ Len(trend_result.papers) = 2
    /\ Len(trend_result.buckets) = 1
    /\ Len(trend_result.buckets[1].papers) = 2

\* The keyword is listed in bucket i of a series.
ListedIn(timeseries, i, keyword) ==
    \E k \in 1..Len(timeseries[i].top_keywords) :
        timeseries[i].top_keywords[k].keyword = keyword

\* C24 as claimed: a keyword listed in at least one of the last N buckets
\* of the scope's series and in none of the N buckets before them is
\* labelled rising and is in the returned list, however few of the recent
\* buckets list it.
C24_NewKeywordReturned ==
    Detected =>
        LET ts == trend_result.timeseries
            n == trend_result.recent_window
            len == Len(trend_result.timeseries)
            ret == trend_result.returned
        IN  len >= 2 * n =>
               \A i \in (len - n + 1)..len :
                  \A k \in 1..Len(ts[i].top_keywords) :
                     LET keyword == ts[i].top_keywords[k].keyword
                     IN  (\A h \in (len - 2 * n + 1)..(len - n) : ~ListedIn(ts, h, keyword))
                         => \E r \in 1..Len(ret) :
                               ret[r].keyword = keyword /\ ret[r].trend = "rising"

(***************************************************************************)
(* Specification of fuzzy dedup and curation of canonical terms            *)
(***************************************************************************)
MaxFuzzy == 2     \* terms handed to one deduplicate_fuzzy call

FuzzyTerms == { "class", "cla", "transformers", "transformer", "graph net", "deep nets" }

\* Lists of scored terms, at most MaxFuzzy long, of terms that come out of
\* stages 1-3 of the filter unchanged.
FuzzyInputs ==
    UNION { [1..n -> { t \in FuzzyTerms : Canonical(t) = t } \X ScorePool] : n \in 0..MaxFuzzy }

\* Every key of the synonym table as a single candidate.
SynonymInputs == { << <<k, s>> >> : k \in DOMAIN SYNONYM_MAPPING, s \in ScorePool }

InitTerms ==
    /\ cands \in FuzzyInputs \cup SynonymInputs
    /\ paper = Null /\ out = NoOut
    /\ runs = << >> /\ paper_keywords = << >> /\ next_kw_id = 1 /\ rows_after = << >>
    /\ LinkIdle /\ VenueIdle /\ TrendIdle

\* KeywordFilter.deduplicate_fuzzy(cands), threshold 0.85
DeduplicateFuzzy ==
    /\ out' = [via |-> "deduplicate_fuzzy", fuzzy_dedup |-> TRUE, top_n |-> 0,
               result |-> deduplicate_fuzzy(cands, ThresholdNum, ThresholdDen)]
    /\ UNCHANGED << cands, paper, runs, paper_keywords, next_kw_id, rows_after >>
    /\ UNCHANGED linkVars /\ UNCHANGED venueVars /\ UNCHANGED trendVars

NextTerms ==
    \/ DeduplicateFuzzy
    \/ \E fuzzy \in BOOLEAN : Process(fuzzy)

SpecTerms == InitTerms /\ [][NextTerms]_vars

\* One term is the other with exactly one trailing "s" added.
OneTrailingS(a, b) == a = b \o "s" \/ b = a \o "s"

\* C25 as claimed: fuzzy dedup rejects a term only when an accepted term
\* is similar to it at the threshold or is the same term up to exactly one
\* trailing "s"; two terms that differ by more than one trailing "s" and
\* are less similar than the threshold are both kept.
C25_RejectedOnlyWhenSimilar ==
    out.via = "deduplicate_fuzzy" =>
        \A i \in 1..Len(cands) :
            \/ \E k \in 1..Len(out.result) : out.result[k] = cands[i]
            \/ \E k \in 1..Len(out.result) :
                  \/ SimilarAtLeast(cands[i][1], out.result[k][1], ThresholdNum, ThresholdDen)
                  \/ OneTrailingS(cands[i][1], out.result[k][1])

\* C30 as claimed: curating the single candidate (k, s), k a key of the
\* synonym table, with the default filter returns exactly
\* [(canonical(k), s)]: no key is dropped before it is canonicalized.
C30_SynonymKeysSurvive ==
    (out.via = "process" /\ out.fuzzy_dedup /\ cands \in SynonymInputs) =>
        out.result = << << SYNONYM_MAPPING[cands[1][1]], cands[1][2] >> >>

(***************************************************************************)
(* Specification of domain classification of one stored record             *)
(***************************************************************************)
DomainRecords ==
    { [source |-> "arxiv", title |-> t, abstract |-> a, year |-> 2024,
       venue_raw |-> Null, journal_ref |-> Null, comments |-> Null, categories |-> c] :
        c \in { Null, "cs.CV", "cs.LG cs.CL", "cs.AI", "stat.ML" },
        t \in { "Deep learning for video", "Robot control", "Graph nets",
                "Language model text" },
        a \in { "", "image and video", "neural network" } }

InitDomain ==
    /\ raw_papers \in { << r >> : r \in DomainRecords }
    /\ papers = << >> /\ paper_sources = << >>
    /\ venues = << >> /\ venue_cache = EmptyCache /\ last_stats = NoStats
    /\ CurateIdle /\ VenueIdle /\ TrendIdle

NextDomain == ProcessBatch(Null, DefaultLimit, NoFaults)

SpecDomain == InitDomain /\ [][NextDomain]_vars

\* The number of terms of a taxonomy entry that occur, in any letter case,
\* in the category, title and abstract of a record taken together.
TermCount(entry, raw_paper) ==
    LET together == PyLower(Fmt(raw_paper.categories) \o " " \o Fmt(raw_paper.title)
                            \o " " \o Fmt(raw_paper.abstract))
    IN  Cardinality({ k \in 1..Len(entry.keywords) :
                        Contains(together, PyLower(entry.keywords[k])) })

\* The domain with the highest term count, the first declared of several,
\* none when no term occurs.
ClaimedDomain(raw_paper) ==
    LET n == Len(DOMAIN_CATEGORIES)
        count == [d \in 1..n |-> TermCount(DOMAIN_CATEGORIES[d], raw_paper)]
        best == CHOOSE d \in 1..n :
                    \A e \in 1..n : count[e] < count[d] \/ (count[e] = count[d] /\ d <= e)
    IN  IF count[best] = 0 THEN Null ELSE DOMAIN_CATEGORIES[best].domain

\* C26 as claimed: a newly created paper has the taxonomy domain with the
\* highest number of terms occurring in the category, title and abstract
\* of its raw record taken together, the first declared on a tie, and no
\* domain when no term occurs.
C26_DomainByTermCount ==
    \A l \in 1..Len(paper_sources) :
        papers[paper_sources[l].paper_id].domain
            = ClaimedDomain(raw_papers[paper_sources[l].raw_id])

(***************************************************************************)
(* Specification of re-ingestion and linking                               *)
(***************************************************************************)
\* RawRepository.save_raw_paper with the provenance links in place:
\* INSERT OR REPLACE under UNIQUE(source, source_paper_id) deletes the row
\* stored for the pair and inserts the record under a new raw_id.  The
\* connection has foreign_keys = ON and paper_sources.raw_id REFERENCES
\* raw_papers(raw_id): the delete of a row that a link refers to fails with
\* IntegrityError and the statement changes nothing.  Rows are kept in
\* raw_id order and a raw_id is the position of its row, so the links to
\* rows behind a deleted one move up with them.
replace_raw_paper(rows, links, record) ==
    LET hits == { i \in 1..Len(rows) :
                    /\ rows[i].source = record.source
                    /\ rows[i].source_paper_id = record.source_paper_id }
        hit == CHOOSE i \in hits : TRUE
        Moved(id) == IF id > hit THEN id - 1 ELSE id
    IN  IF hits = {}
        THEN [raw_papers |-> Append(rows, record), paper_sources |-> links,
              raised |-> FALSE]
        ELSE IF \E l \in 1..Len(links) : links[l].raw_id = hit
        THEN [raw_papers |-> rows, paper_sources |-> links, raised |-> TRUE]
        ELSE [raw_papers |-> Append([i \in 1..(Len(rows) - 1) |->
                                        IF i < hit THEN rows[i] ELSE rows[i + 1]],
                                    record),
              paper_sources |-> [l \in 1..Len(links) |->
                                    [links[l] EXCEPT !.raw_id = Moved(@)]],
              raised |-> FALSE]

\* Records of three (source, source_paper_id) pairs: one pair arrives in
\* two versions, one has an empty title.
StoredRecord(source, source_paper_id, title, abstract) ==
    [source |-> source, source_paper_id |-> source_paper_id, title |-> title,
     abstract |-> abstract, year |-> 2024, venue_raw |-> Null, journal_ref |-> Null,
     comments |-> Null, categories |-> Null]

ReingestRecords ==
    { StoredRecord("arxiv", "a1", "Deep Nets", "text"),
      StoredRecord("arxiv", "a1", "Deep Nets", "image"),
      StoredRecord("arxiv", "a2", "", "text"),
      StoredRecord("openreview", "o1", "Graph nets", "text") }

BatchLimit == 1     \* the limit L of the repeated process_batch calls
MaxStored == 3      \* raw rows that the table may hold

\* No repository call raises while a batch runs.
NoStoredFaults == [id \in 1..MaxStored |-> "ok"]

InitReingest ==
    /\ raw_papers = << >> /\ papers = << >> /\ paper_sources = << >>
    /\ venues = << >> /\ venue_cache = EmptyCache /\ last_stats = NoStats
    /\ CurateIdle /\ VenueIdle /\ TrendIdle

\* A scraper saves a record, new or stored before; IngestionAgent catches
\* the exception of a failed save.
Reingest(record) ==
    /\ \E r \in { replace_raw_paper(raw_papers, paper_sources, record) } :
          /\ Len(r.raw_papers) <= MaxStored
          /\ raw_papers' = r.raw_papers
          /\ paper_sources' = r.paper_sources
          /\ trend_result' = [called |-> TRUE, op |-> "save_raw_paper",
                              record |-> record, raised |-> r.raised]
    /\ UNCHANGED << papers, venues, venue_cache, last_stats >>
    /\ UNCHANGED << clock, arxiv_timeseries, analysis_meta, arxiv_emerging >>
    /\ UNCHANGED curateVars /\ UNCHANGED venueVars

NextReingest ==
    \/ \E record \in ReingestRecords : Reingest(record)
    \/ \E limit \in { BatchLimit, DefaultLimit } : ProcessBatch(Null, limit, NoStoredFaults)

SpecReingest == InitReingest /\ [][NextReingest]_vars

\* C27 as claimed: after any ingestions, re-ingestions and batches there
\* is exactly one raw row per (source, sourceId) and it holds the fields
\* written last, every provenance link refers to a raw row that exists,
\* and no (source, sourceId) pair has two provenance links.
C27_OneRowLastFields ==
    /\ \A i, j \in 1..Len(raw_papers) :
          (/\ raw_papers[i].source = raw_papers[j].source
           /\ raw_papers[i].source_paper_id = raw_papers[j].source_paper_id) => i = j
    /\ trend_result.called =>
          \E i \in 1..Len(raw_papers) : raw_papers[i] = trend_result.record
    /\ \A l \in 1..Len(paper_sources) : paper_sources[l].raw_id \in 1..Len(raw_papers)
    /\ \A l, k \in 1..Len(paper_sources) :
          paper_sources[l].raw_id = paper_sources[k].raw_id => l = k

(***************************************************************************)
(* Specification of repeated batches over a table that no longer grows     *)
(***************************************************************************)
\* The raw tables that ingestion can leave: records of distinct pairs in
\* any order of arrival.
StoredTables ==
    UNION { { t \in [1..n -> ReingestRecords] :
                \A i, j \in 1..n :
                    (/\ t[i].source = t[j].source
                     /\ t[i].source_paper_id = t[j].source_paper_id) => i = j } :
            n \in 0..MaxStored }

InitBatches ==
    /\ raw_papers \in StoredTables
    /\ papers = << >> /\ paper_sources = << >>
    /\ venues = << >> /\ venue_cache = EmptyCache /\ last_stats = NoStats
    /\ CurateIdle /\ VenueIdle /\ TrendIdle

\* One more invocation of process_batch(limit = L); clock is the parity of
\* the number of invocations, so that every invocation is a step.
RepeatedBatch ==
    /\ \E r \in { process_batch(raw_papers, papers, paper_sources, venues, venue_cache,
                                Null, BatchLimit, NoStoredFaults) } :
          /\ papers' = r.papers
          /\ paper_sources' = r.paper_sources
          /\ venues' = r.venues
          /\ venue_cache' = r.venue_cache
          /\ last_stats' = r.stats
    /\ clock' = (clock % 2) + 1
    /\ UNCHANGED << raw_papers, arxiv_timeseries, analysis_meta, arxiv_emerging, trend_result >>
    /\ UNCHANGED curateVars /\ UNCHANGED venueVars

\* A step that invokes process_batch: in NextBatches, a RepeatedBatch step.
InvokeBatch == clock' = (clock % 2) + 1

NextBatches == RepeatedBatch

\* The scheduler invokes process_batch again and again.
SpecBatches == InitBatches /\ [][NextBatches]_vars /\ WF_clock(InvokeBatch)

\* Every stored raw record with a non-empty title has a provenance link.
TitledLinked ==
    \A i \in 1..Len(raw_papers) :
        _normalize_title(raw_papers[i].title) # ""
            => \E l \in 1..Len(paper_sources) : paper_sources[l].raw_id = i

\* C28 as claimed: with process_batch(limit = L) invoked repeatedly and no
\* new raw record arriving, every raw record with a non-empty title is
\* eventually linked, however many stored records have an empty title.
C28_TitledEventuallyLinked == <>TitledLinked

(***************************************************************************)
(* Specification of repeated analysis runs over tables that stay as they   *)
(* are                                                                     *)
(***************************************************************************)
MaxAnalysed == 3
\* The limit L of AnalysisAgent.run(method, limit = L)
AnalysisLimit == 1

\* Canonical papers of the table papers (title, abstract) with what the
\* keyword extractor returns for their text.
AnalysedPapers ==
    { [canonical_title |-> "Graph nets", abstract |-> "for text",
       extracted |-> << << "Graph nets", 10 >> >>],
      [canonical_title |-> "Vision transformers", abstract |-> "for video",
       extracted |-> << << "vit", 20 >> >>],
      [canonical_title |-> "Deep nets", abstract |-> "of images",
       extracted |-> << << "the", 10 >> >>],
      [canonical_title |-> "RL", abstract |-> "",
       extracted |-> << << "rl", 10 >> >>] }

AnalysedTables ==
    UNION { { t \in [1..n -> AnalysedPapers] : \A i, j \in 1..n : t[i] = t[j] => i = j } :
            n \in 0..MaxAnalysed }

\* The row of papers at position i as the Paper that
\* get_papers_without_keywords builds from it.
PaperAt(ps, i) ==
    [paper_id |-> i, canonical_title |-> ps[i].canonical_title,
     abstract |-> ps[i].abstract]

\* AnalysisRepository.get_papers_without_keywords(method, limit): the
\* paper ids, in table order, with a non-empty canonical title and no
\* paper_keywords row of the method, cut to the limit.
get_papers_without_keywords(ps, rows, method, limit) ==
    LET Lacks(i) ==
            /\ ps[i].canonical_title # ""
            /\ ~\E k \in 1..Len(rows) : rows[k].paper_id = i /\ rows[k].method = method
        f[i \in 0..Len(ps)] ==
            IF i = 0 THEN << >>
            ELSE LET prev == f[i-1]
                 IN  IF Lacks(i) THEN Append(prev, i) ELSE prev
    IN  Prefix(f[Len(ps)], limit)

\* AnalysisAgent.should_run_analysis
should_run_analysis(meta, raws, ps) ==
    LET has_retrieved == \E r \in meta : r.key = "last_raw_max_retrieved_at"
        has_count == \E r \in meta : r.key = "last_paper_count"
        current_retrieved == get_max_retrieved_at(raws)
    IN  IF ~has_retrieved THEN TRUE
        ELSE IF /\ current_retrieved # 0
                /\ current_retrieved > get_meta(meta, "last_raw_max_retrieved_at")
             THEN TRUE
        ELSE IF has_count /\ Str(Len(ps)) # get_meta(meta, "last_paper_count")
             THEN TRUE
        ELSE FALSE

\* AnalysisAgent._update_analysis_meta; now is the clock's reading
_update_analysis_meta(meta, raws, ps, now) ==
    LET current_retrieved == get_max_retrieved_at(raws)
        m1 == IF current_retrieved # 0
              THEN set_meta(meta, "last_raw_max_retrieved_at", current_retrieved)
              ELSE meta
        m2 == set_meta(m1, "last_paper_count", Str(Len(ps)))
    IN  set_meta(m2, "last_analysis_run", now)

\* One turn of the loop of AnalysisAgent.run: save_paper_keyword for every
\* PaperKeyword that process_paper returned, and the counters.
save_processed(prev, keywords) ==
    [rows |-> SaveAll(prev.rows, prev.next_id, keywords),
     next_id |-> prev.next_id + Len(keywords),
     processed |-> prev.processed + 1]

\* The loop of AnalysisAgent.run over the papers to process.
run_papers(ps, rows, next_id, method, todo) ==
    LET f[i \in 0..Len(todo)] ==
            IF i = 0 THEN [rows |-> rows, next_id |-> next_id, processed |-> 0]
            ELSE save_processed(f[i-1],
                                process_paper(PaperAt(ps, todo[i]), method, 10,
                                              ps[todo[i]].extracted))
    IN  f[Len(todo)]

\* The result dictionary of a run that was not skipped, with the tables
\* paper_keywords and analysis_meta after it.
run_result(done, next_id, meta) ==
    [status |-> "done", processed |-> done.processed,
     keywords |-> done.next_id - next_id,
     paper_keywords |-> done.rows, next_kw_id |-> done.next_id,
     analysis_meta |-> meta]

\* AnalysisAgent.run(method, limit, force) on the tables.
analysis_run(ps, rows, next_id, meta, raws, method, limit, force, now) ==
    IF ~force /\ ~should_run_analysis(meta, raws, ps)
    THEN [status |-> "skipped", processed |-> 0, keywords |-> 0,
          paper_keywords |-> rows, next_kw_id |-> next_id, analysis_meta |-> meta]
    ELSE run_result(run_papers(ps, rows, next_id, method,
                               get_papers_without_keywords(ps, rows, method, limit)),
                    next_id, _update_analysis_meta(meta, raws, ps, now))

\* The raw table is empty or holds one record retrieved at time 1.
InitAnalysis ==
    /\ papers \in AnalysedTables
    /\ raw_papers \in { << >>, << [retrieved_at |-> 1] >> }
    /\ paper_sources = << >> /\ venues = << >> /\ venue_cache = << >>
    /\ last_stats = Null
    /\ CurateIdle /\ VenueIdle /\ TrendIdle

\* One more invocation of run(method = "yake", limit = L) without force;
\* clock is the parity of the number of invocations.
AnalysisRun ==
    /\ \E r \in { analysis_run(papers, paper_keywords, next_kw_id, analysis_meta,
                               raw_papers, "yake", AnalysisLimit, FALSE, clock) } :
          /\ paper_keywords' = r.paper_keywords
          /\ next_kw_id' = r.next_kw_id
          /\ analysis_meta' = r.analysis_meta
          /\ trend_result' = [called |-> TRUE, op |-> "run", status |-> r.status,
                              processed |-> r.processed, keywords |-> r.keywords]
    /\ clock' = (clock % 2) + 1
    /\ UNCHANGED << cands, paper, out, runs, rows_after >>
    /\ UNCHANGED << arxiv_timeseries, arxiv_emerging >>
    /\ UNCHANGED linkVars /\ UNCHANGED venueVars

\* A step that invokes run: in NextAnalysis, an AnalysisRun step.
InvokeRun == clock' = (clock % 2) + 1

NextAnalysis == AnalysisRun

\* The scheduler invokes run again and again.
SpecAnalysis == InitAnalysis /\ [][NextAnalysis]_vars /\ WF_clock(InvokeRun)

\* Paper i of the table has a non-empty curated keyword list.
HasCurated(i) ==
    process_paper(PaperAt(papers, i), "yake", 10, papers[i].extracted) # << >>

\* Paper i of the table has paper_keywords rows of the method.
HasRows(i) ==
    \E k \in 1..Len(paper_keywords) :
        paper_keywords[k].paper_id = i /\ paper_keywords[k].method = "yake"

AllCurated == \A i \in 1..Len(papers) : HasCurated(i) => HasRows(i)

SkippedRun == trend_result.called /\ trend_result.status = "skipped"

\* C29 as claimed: with run(method, limit = L) invoked repeatedly without
\* force and no new raw record or paper arriving, every canonical paper
\* with a non-empty curated keyword list eventually has paper_keywords rows
\* of the method, and no run is reported as skipped while such a paper has none.
C29_AllEventuallyCurated == <>AllCurated /\ [](SkippedRun => AllCurated)
====
